---- MODULE Spec2Model ----
(***************************************************************************)
(* A model of DARN: the SQLite-backed store (core/store.py) and the batch  *)
(* orchestration of main.py.                                              *)
(*                                                                         *)
(* Python values are represented as follows.                               *)
(*   - a str whose characters matter (an ip) is a sequence of one-character*)
(*     strings: "a" is <<"a">>, " a" is <<" ", "a">>, "" is <<>>;          *)
(*   - an optional value (None, or a dict key that is missing and read     *)
(*     with .get) is a sequence of length 0 or 1: None is <<>>, the value  *)
(*     x is <<x>>;                                                         *)
(*   - a list is a sequence; a dict with a fixed set of keys is a record.  *)
(***************************************************************************)
EXTENDS Integers, Sequences, FiniteSets, TLC

VARIABLES
    endpoints,      \* table endpoints: rows [ip, discovered_at] in rowid order
    verifications,  \* table verifications: rows in rowid order
    probes,         \* table probes: rows in rowid order
    probe_seq,      \* sqlite_sequence of probes: the largest id ever handed out
    now,            \* CURRENT_TIMESTAMP of the database clock, in seconds
    op,             \* the store function called last
    arg,            \* its argument
    ret,            \* what it returned: <<n>>, or <<>> when it raised
    nOps,           \* number of store calls made so far
    pc,             \* where the running store call is: "idle" between calls
    conn,           \* the open connection of the running call: its view of the tables
    todoE,          \* ips the endpoints executemany has not inserted yet
    todoR,          \* payloads the second executemany has not inserted yet
    base,           \* the committed tables when the running (or last) call began
    seen,           \* what the last fetch of a concurrent reader returned
    bpc,            \* where main() is
    candidates,     \* main's list "endpoints": the ips to verify
    tasks,          \* the futures of the verify pool, one per candidate
    main_results,   \* main's list "results"
    probe_results,  \* main's list "probe_results"
    csv,            \* verifications.csv: "absent", "written" or "partial"
    discovery_calls,\* number of calls of discover_candidates so far
    probe_calls,    \* the arguments of the calls of probe_node so far
    ranked,         \* main's list "ranked"
    requests_made   \* the HTTP requests of the call of verify_endpoint or probe_node

tables == <<endpoints, verifications, probes, probe_seq>>
history == <<op, arg, ret, nOps>>
txvars == <<pc, conn, todoE, todoR, base, seen>>
batchvars == <<bpc, candidates, tasks, main_results, probe_results, csv,
               discovery_calls, probe_calls, ranked, requests_made>>
vars == <<tables, now, history, txvars, batchvars>>

\* ------------------------------------------------------------------ bounds
MaxBatch == 2       \* longest argument list of one store call
MaxOps == 2         \* store calls in one behaviour
MaxCandidates == 3  \* most candidate ips of one batch
max_workers == 2    \* width of the verify pool (50 in main.py, scaled down)

\* ------------------------------------------------------------- Python values
None == <<>>
Some(x) == <<x>>
Val(o) == o[1]

\* the bug of testing "ip is None" where "not ip" is meant
Truthy_NotNone(o) == o # None

\* bool(x) of an optional str: None and "" are falsy
Truthy(o) == o # None /\ Val(o) # <<>>

Range(s) == {s[i] : i \in DOMAIN s}

Min2(a, b) == IF a <= b THEN a ELSE b
Max2(a, b) == IF a >= b THEN a ELSE b

IsSpace(ch) == ch = " "

RECURSIVE LStrip(_)
LStrip(s) == IF s # <<>> /\ IsSpace(Head(s)) THEN LStrip(Tail(s)) ELSE s

RECURSIVE RStrip(_)
RStrip(s) ==
    IF s # <<>> /\ IsSpace(s[Len(s)]) THEN RStrip(SubSeq(s, 1, Len(s) - 1)) ELSE s

\* str.strip()
Strip(s) == RStrip(LStrip(s))

\* a str as the sequence of its characters, and back
Chars(s) == [i \in 1..Len(s) |-> SubSeq(s, i, i)]

RECURSIVE Concat(_)
Concat(chars) == IF chars = <<>> THEN "" ELSE Head(chars) \o Concat(Tail(chars))

\* str.lower of one character, for the characters that occur
Lower(ch) ==
    CASE ch = "A" -> "a"
      [] ch = "B" -> "b"
      [] ch = "G" -> "g"
      [] ch = "H" -> "h"
      [] ch = "I" -> "i"
      [] ch = "L" -> "l"
      [] ch = "M" -> "m"
      [] ch = "N" -> "n"
      [] ch = "P" -> "p"
      [] OTHER -> ch

\* s.strip() and s.lower() of a str
StrStrip(s) == Concat(Strip(Chars(s)))
StrLower(s) == Concat([i \in 1..Len(s) |-> Lower(SubSeq(s, i, i))])

\* the characters that occur, in the order of their code points
Alphabet == " -./0123456789:ABCDEFGHIJKLMNOPQRSTUVWXYZabcdefghijklmnopqrstuvwxyz"
Ord(ch) == CHOOSE k \in 1..Len(Alphabet) : SubSeq(Alphabet, k, k) = ch

\* a < b of two str: the first character that differs decides, a proper
\* prefix is smaller
StrLess(a, b) ==
    \/ Len(a) < Len(b) /\ SubSeq(b, 1, Len(a)) = a
    \/ \E k \in 1..Min2(Len(a), Len(b)) :
           /\ SubSeq(a, 1, k - 1) = SubSeq(b, 1, k - 1)
           /\ Ord(SubSeq(a, k, k)) < Ord(SubSeq(b, k, k))

\* all sequences over S of length 0..n
SeqsUpTo(S, n) == UNION {[1..k -> S] : k \in 0..n}

\* ------------------------------------------------------------------- JSON
\* json.dumps of a list of str, e.g. ["m", "n"]
RECURSIVE JsonItems(_)
JsonItems(l) ==
    IF l = <<>> THEN ""
    ELSE IF Len(l) = 1 THEN "\"" \o l[1] \o "\""
    ELSE "\"" \o l[1] \o "\", " \o JsonItems(Tail(l))

JsonDumps(l) == "[" \o JsonItems(l) \o "]"

\* the model lists of this model
ModelLists == {<<>>, <<"m">>, <<"m", "n">>, <<"n", "m">>}

\* json.loads within fetch_verifications: text that does not decode gives []
JsonLoads(s) ==
    IF \E l \in ModelLists : JsonDumps(l) = s
    THEN CHOOSE l \in ModelLists : JsonDumps(l) = s
    ELSE <<>>

\* ------------------------------------------------------- the connection
\* sqlite3.connect: the connection sees the committed tables and counts the
\* rows it changes in total_changes
Connect ==
    [endpoints |-> endpoints, verifications |-> verifications,
     probes |-> probes, probe_seq |-> probe_seq, total_changes |-> 0]

\* the committed tables, as any other connection reads them
Committed ==
    [endpoints |-> endpoints, verifications |-> verifications,
     probes |-> probes, probe_seq |-> probe_seq]

HasEndpoint(c, ip) == \E i \in DOMAIN c.endpoints : c.endpoints[i].ip = ip

\* the bug of INSERT OR REPLACE: an existing ip counts as a change again
InsertOrIgnoreEndpoint_Replace(c, ip, t) ==
    IF HasEndpoint(c, ip) THEN [c EXCEPT !.total_changes = @ + 1]
    ELSE [c EXCEPT !.endpoints = Append(@, [ip |-> ip, discovered_at |-> t]),
                   !.total_changes = @ + 1]

\* INSERT OR IGNORE INTO endpoints (ip) VALUES (?)
InsertOrIgnoreEndpoint(c, ip, t) ==
    IF HasEndpoint(c, ip) THEN c
    ELSE [c EXCEPT !.endpoints = Append(@, [ip |-> ip, discovered_at |-> t]),
                   !.total_changes = @ + 1]

RECURSIVE ExecutemanyEndpoints(_, _, _)
ExecutemanyEndpoints(c, ips, t) ==
    IF ips = <<>> THEN c
    ELSE ExecutemanyEndpoints(InsertOrIgnoreEndpoint(c, Head(ips), t), Tail(ips), t)

\* the bug of a plain assignment x=excluded.x
Coalesce_Overwrite(excluded, stored) == excluded

\* COALESCE(excluded.x, x)
Coalesce(excluded, stored) == IF excluded # None THEN excluded ELSE stored

\* the bug of an update that keeps a stored error when the incoming one is null
ConflictUpdate_KeepError(row, p, t) ==
    [ip |-> row.ip, ok |-> p.ok, models |-> p.models, latency_ms |-> p.latency_ms,
     error |-> IF p.error # None THEN p.error ELSE row.error,
     lat |-> Coalesce(p.lat, row.lat), lon |-> Coalesce(p.lon, row.lon),
     city |-> Coalesce(p.city, row.city), region |-> Coalesce(p.region, row.region),
     country |-> Coalesce(p.country, row.country), checked_at |-> t]

\* the row a conflicting INSERT leaves: ON CONFLICT(ip) DO UPDATE SET ...
ConflictUpdate(row, p, t) ==
    [ip |-> row.ip,
     ok |-> p.ok,
     models |-> p.models,
     latency_ms |-> p.latency_ms,
     error |-> p.error,
     lat |-> Coalesce(p.lat, row.lat),
     lon |-> Coalesce(p.lon, row.lon),
     city |-> Coalesce(p.city, row.city),
     region |-> Coalesce(p.region, row.region),
     country |-> Coalesce(p.country, row.country),
     checked_at |-> t]

\* the row a fresh INSERT makes; checked_at DEFAULT CURRENT_TIMESTAMP
InsertedVerification(p, t) ==
    [ip |-> p.ip, ok |-> p.ok, models |-> p.models, latency_ms |-> p.latency_ms,
     error |-> p.error, lat |-> p.lat, lon |-> p.lon, city |-> p.city,
     region |-> p.region, country |-> p.country, checked_at |-> t]

\* the bug of a verifications table whose ip is no key
Conflicts_NoKey(c, p) == FALSE

\* whether the INSERT hits the PRIMARY KEY of verifications
Conflicts(c, p) == \E i \in DOMAIN c.verifications : c.verifications[i].ip = p.ip

\* INSERT INTO verifications ... ON CONFLICT(ip) DO UPDATE SET ...
UpsertVerification(c, p, t) ==
    IF Conflicts(c, p)
    THEN [c EXCEPT !.verifications =
                       [i \in DOMAIN @ |->
                           IF @[i].ip = p.ip THEN ConflictUpdate(@[i], p, t) ELSE @[i]],
                   !.total_changes = @ + 1]
    ELSE [c EXCEPT !.verifications = Append(@, InsertedVerification(p, t)),
                   !.total_changes = @ + 1]

RECURSIVE ExecutemanyVerifications(_, _, _)
ExecutemanyVerifications(c, payloads, t) ==
    IF payloads = <<>> THEN c
    ELSE ExecutemanyVerifications(UpsertVerification(c, Head(payloads), t),
                                  Tail(payloads), t)

\* the bug of an upsert keyed by (ip, model) in place of a plain INSERT
InsertProbe_Upsert(c, p, t) ==
    LET id == c.probe_seq + 1
        row == [id |-> id, ip |-> p.ip, model |-> p.model, success |-> p.success,
                latency_ms |-> p.latency_ms, status_code |-> p.status_code,
                error |-> p.error, body |-> p.body, ts |-> t]
        same(r) == r.ip = p.ip /\ r.model = p.model
    IN  IF \E i \in DOMAIN c.probes : same(c.probes[i])
        THEN [c EXCEPT !.probes = [i \in DOMAIN c.probes |->
                                      IF same(c.probes[i])
                                      THEN [row EXCEPT !.id = c.probes[i].id]
                                      ELSE c.probes[i]],
                       !.total_changes = @ + 1]
        ELSE [c EXCEPT !.probes = Append(@, row), !.probe_seq = id,
                       !.total_changes = @ + 1]

\* INSERT INTO probes (...): id INTEGER PRIMARY KEY AUTOINCREMENT
InsertProbe(c, p, t) ==
    LET id == c.probe_seq + 1 IN
    [c EXCEPT !.probes = Append(@, [id |-> id, ip |-> p.ip, model |-> p.model,
                                    success |-> p.success, latency_ms |-> p.latency_ms,
                                    status_code |-> p.status_code, error |-> p.error,
                                    body |-> p.body, ts |-> t]),
              !.probe_seq = id,
              !.total_changes = @ + 1]

RECURSIVE ExecutemanyProbes(_, _, _)
ExecutemanyProbes(c, payloads, t) ==
    IF payloads = <<>> THEN c
    ELSE ExecutemanyProbes(InsertProbe(c, Head(payloads), t), Tail(payloads), t)

\* ---------------------------------------------------- arguments to payloads
\* store_endpoints: [ip.strip() for ip in endpoints if ip]
RECURSIVE StrippedEndpoints(_)
StrippedEndpoints(ips) ==
    IF ips = <<>> THEN <<>>
    ELSE IF Head(ips) # <<>> THEN <<Strip(Head(ips))>> \o StrippedEndpoints(Tail(ips))
    ELSE StrippedEndpoints(Tail(ips))

\* store_verifications: one payload tuple per item that has an ip
VerificationPayload(item) ==
    [ip |-> Val(item.ip),
     ok |-> IF item.ok THEN 1 ELSE 0,
     models |-> IF item.models # None THEN Some(JsonDumps(Val(item.models))) ELSE None,
     latency_ms |-> item.latency_ms,
     error |-> item.error,
     lat |-> item.lat, lon |-> item.lon, city |-> item.city,
     region |-> item.region, country |-> item.country]

RECURSIVE VerificationPayloads(_)
VerificationPayloads(results) ==
    IF results = <<>> THEN <<>>
    ELSE IF ~Truthy(Head(results).ip) THEN VerificationPayloads(Tail(results))
    ELSE <<VerificationPayload(Head(results))>> \o VerificationPayloads(Tail(results))

\* store_probes: one payload tuple per item that has an ip
ProbePayload(item) ==
    [ip |-> Val(item.ip), model |-> item.model,
     success |-> IF item.success THEN 1 ELSE 0,
     latency_ms |-> item.latency_ms, status_code |-> item.status_code,
     error |-> item.error, body |-> item.body]

RECURSIVE ProbePayloads(_)
ProbePayloads(results) ==
    IF results = <<>> THEN <<>>
    ELSE IF ~Truthy(Head(results).ip) THEN ProbePayloads(Tail(results))
    ELSE <<ProbePayload(Head(results))>> \o ProbePayloads(Tail(results))

\* the bug of not ensuring the endpoint rows
PayloadIps_Nothing(payloads) == <<>>

\* [(p[0],) for p in payloads]
PayloadIps(payloads) == [i \in DOMAIN payloads |-> payloads[i].ip]

\* ------------------------------------------------------------------ reads
\* fetch_verifications: the result dict made from one row
FetchedVerification(row) ==
    [ip |-> row.ip,
     ok |-> row.ok # 0,
     models |-> IF row.models # None /\ Val(row.models) # ""
                THEN JsonLoads(Val(row.models)) ELSE <<>>,
     latency_ms |-> row.latency_ms,
     error |-> row.error,
     checked_at |-> row.checked_at,
     lat |-> IF row.lat # None /\ row.lon # None THEN row.lat ELSE None,
     lon |-> IF row.lat # None /\ row.lon # None THEN row.lon ELSE None,
     city |-> row.city, region |-> row.region, country |-> row.country]

\* --------------------------------------------------- the arguments explored
IpA == <<"a">>
IpB == <<"b">>
IpPaddedA == <<" ", "a">>
IpBlank == <<" ">>
IpEmpty == <<>>

\* store_endpoints is given str values: plain, padded, blank and empty ones
EndpointArgs == {IpA, IpPaddedA, IpB, IpBlank, IpEmpty}

\* the key/value pairs of a result dict besides "ip"; a missing key reads as None
\* verified, geolocated with every field
ShapeFullGeo ==
    [ok |-> TRUE, models |-> Some(<<"m">>), latency_ms |-> Some(7), error |-> None,
     lat |-> Some(1), lon |-> Some(1), city |-> Some("c1"), region |-> Some("r1"),
     country |-> Some("k1")]

\* verified, geolocated with coordinates only
ShapeCoordinates ==
    [ok |-> TRUE, models |-> Some(<<"m", "n">>), latency_ms |-> Some(9), error |-> None,
     lat |-> Some(2), lon |-> Some(2), city |-> None, region |-> None, country |-> None]

\* what verify_endpoint returns on a transport failure: no geo keys at all
ShapeTransport ==
    [ok |-> FALSE, models |-> Some(<<>>), latency_ms |-> None, error |-> Some("timeout"),
     lat |-> None, lon |-> None, city |-> None, region |-> None, country |-> None]

\* a dict without "models", with place names but no coordinates
ShapePlaces ==
    [ok |-> FALSE, models |-> None, latency_ms |-> Some(3), error |-> Some("status 500"),
     lat |-> None, lon |-> None, city |-> Some("c2"), region |-> Some("r2"),
     country |-> Some("k2")]

WithIp(shape, ip) ==
    [ip |-> ip, ok |-> shape.ok, models |-> shape.models,
     latency_ms |-> shape.latency_ms, error |-> shape.error,
     lat |-> shape.lat, lon |-> shape.lon, city |-> shape.city,
     region |-> shape.region, country |-> shape.country]

\* result dicts for re-verification: every shape for ip a, one for ip b
UpsertArgs ==
    {WithIp(sh, Some(IpA)) :
        sh \in {ShapeFullGeo, ShapeCoordinates, ShapeTransport, ShapePlaces}}
    \cup {WithIp(ShapeFullGeo, Some(IpB))}

\* result dicts with and without an ip: "ip" missing or None, and "ip" empty
VerificationArgs ==
    {WithIp(ShapeFullGeo, Some(IpA)), WithIp(ShapeTransport, Some(IpB)),
     WithIp(ShapeTransport, None), WithIp(ShapeFullGeo, Some(IpEmpty))}

ProbeOk(ip) ==
    [ip |-> ip, model |-> Some("m"), success |-> TRUE, latency_ms |-> Some(5),
     status_code |-> Some(200), error |-> None, body |-> Some(<<"p", "i", "n", "g">>)]

ProbeFailed(ip) ==
    [ip |-> ip, model |-> Some("m"), success |-> FALSE, latency_ms |-> None,
     status_code |-> None, error |-> Some("timeout"), body |-> None]

ProbeArgs == {ProbeOk(Some(IpA)), ProbeFailed(None), ProbeOk(Some(IpEmpty))}

\* ------------------------------------------------------------ the store calls
\* conn.commit(): the connection's tables become the committed ones
Commit(c) ==
    /\ endpoints' = c.endpoints
    /\ verifications' = c.verifications
    /\ probes' = c.probes
    /\ probe_seq' = c.probe_seq

Returned(name, a, n) ==
    /\ op' = name
    /\ arg' = a
    /\ ret' = Some(n)
    /\ nOps' = nOps + 1
    /\ now' = now + 1      \* the next call runs in a later second

\* store_endpoints(endpoints) -> int
store_endpoints(ips) ==
    LET eps == StrippedEndpoints(ips)
        c0 == Connect
        before == c0.total_changes
        c1 == ExecutemanyEndpoints(c0, eps, now)
    IN  IF eps = <<>>
        THEN /\ UNCHANGED <<endpoints, verifications, probes, probe_seq>>
             /\ Returned("store_endpoints", ips, 0)
        ELSE /\ Commit(c1)
             /\ Returned("store_endpoints", ips, c1.total_changes - before)

\* store_verifications(results) -> int
store_verifications(results) ==
    LET c0 == Connect
        before == c0.total_changes
        payloads == VerificationPayloads(results)
        c1 == ExecutemanyEndpoints(c0, PayloadIps(payloads), now)
        c2 == ExecutemanyVerifications(c1, payloads, now)
    IN  IF results = <<>>
        THEN /\ UNCHANGED <<endpoints, verifications, probes, probe_seq>>
             /\ Returned("store_verifications", results, 0)
        ELSE /\ Commit(c2)
             /\ Returned("store_verifications", results, c2.total_changes - before)

\* store_probes(results) -> int
store_probes(results) ==
    LET c0 == Connect
        before == c0.total_changes
        payloads == ProbePayloads(results)
        c1 == ExecutemanyEndpoints(c0, PayloadIps(payloads), now)
        c2 == ExecutemanyProbes(c1, payloads, now)
    IN  IF results = <<>> \/ payloads = <<>>
        THEN /\ UNCHANGED <<endpoints, verifications, probes, probe_seq>>
             /\ Returned("store_probes", results, 0)
        ELSE /\ Commit(c2)
             /\ Returned("store_probes", results, c2.total_changes - before)

\* a fresh database file: _ensure_schema has created three empty tables
Fresh ==
    /\ endpoints = <<>>
    /\ verifications = <<>>
    /\ probes = <<>>
    /\ probe_seq = 0
    /\ now = 0
    /\ ret = None
    /\ nOps = 0
    /\ pc = "idle"
    /\ conn = Connect
    /\ todoE = <<>>
    /\ todoR = <<>>
    /\ base = Committed
    /\ seen = Committed
    /\ bpc = "start"
    /\ candidates = <<>>
    /\ tasks = <<>>
    /\ main_results = <<>>
    /\ probe_results = <<>>
    /\ csv = "absent"
    /\ discovery_calls = 0
    /\ probe_calls = <<>>
    /\ ranked = <<>>
    /\ requests_made = <<>>

Init ==
    /\ Fresh
    /\ op = "init"
    /\ arg = <<>>

\* a caller of the store: one whole call, nothing else running
Call(call) ==
    /\ nOps < MaxOps
    /\ call
    /\ UNCHANGED <<txvars, batchvars>>

\* any sequence of store calls
Next ==
    \/ \E ips \in SeqsUpTo({IpA, IpB}, MaxBatch) : Call(store_endpoints(ips))
    \/ \E rs \in SeqsUpTo(VerificationArgs, MaxBatch) : Call(store_verifications(rs))
    \/ \E rs \in SeqsUpTo(ProbeArgs, MaxBatch) : Call(store_probes(rs))

Spec == Init /\ [][Next]_vars

\* repeated verification of the same endpoints
NextUpsert ==
    \E rs \in SeqsUpTo(UpsertArgs, MaxBatch) : Call(store_verifications(rs))

SpecUpsert == Init /\ [][NextUpsert]_vars

\* discovery results stored over endpoints that verification may have created
NextEndpoints ==
    \/ \E ips \in SeqsUpTo(EndpointArgs, MaxBatch) : Call(store_endpoints(ips))
    \/ \E rs \in SeqsUpTo({WithIp(ShapeTransport, Some(IpA))}, MaxBatch) :
           Call(store_verifications(rs))

SpecEndpoints == Init /\ [][NextEndpoints]_vars

\* ------------------------------------------- a batch write, statement by statement
\* The connection is opened with sqlite3's default isolation_level: the first
\* INSERT opens a transaction, conn.commit() ends it, and conn.close() without
\* a commit drops what is pending. (The conn.commit() inside _ensure_schema
\* runs before the first INSERT and has nothing to commit.)

\* the bug of committing in the finally block
TablesAfterClose_Commit(c) ==
    [endpoints |-> c.endpoints, verifications |-> c.verifications,
     probes |-> c.probes, probe_seq |-> c.probe_seq]

\* finally: conn.close() with a transaction pending: the committed tables stay
TablesAfterClose(c) == Committed

\* store_verifications / store_probes up to the first executemany
Begin(name, results, payloads) ==
    /\ pc \in {"idle", "failed"}
    /\ nOps < MaxOps
    /\ op' = name
    /\ arg' = results
    /\ base' = Committed
    /\ UNCHANGED <<tables, seen, batchvars>>
    /\ IF payloads = <<>>
       THEN \* "if not results: return 0", "if not payloads: return 0", or a
            \* commit of nothing
            /\ ret' = Some(0)
            /\ pc' = "idle"
            /\ nOps' = nOps + 1
            /\ now' = now + 1
            /\ UNCHANGED <<conn, todoE, todoR>>
       ELSE /\ ret' = None
            /\ pc' = "endpoints"
            /\ conn' = Connect
            /\ todoE' = PayloadIps(payloads)
            /\ todoR' = payloads
            /\ UNCHANGED <<nOps, now>>

begin_store_verifications(results) ==
    Begin("store_verifications", results, VerificationPayloads(results))

begin_store_probes(results) ==
    Begin("store_probes", results, ProbePayloads(results))

\* one statement of executemany("INSERT OR IGNORE INTO endpoints ...")
ExecEndpoint ==
    /\ pc = "endpoints"
    /\ conn' = InsertOrIgnoreEndpoint(conn, Head(todoE), now)
    /\ todoE' = Tail(todoE)
    /\ pc' = IF Tail(todoE) = <<>> THEN "rows" ELSE "endpoints"
    /\ UNCHANGED <<tables, now, history, todoR, base, seen, batchvars>>

\* one statement of the second executemany
ExecRow ==
    /\ pc = "rows"
    /\ conn' = IF op = "store_verifications"
               THEN UpsertVerification(conn, Head(todoR), now)
               ELSE InsertProbe(conn, Head(todoR), now)
    /\ todoR' = Tail(todoR)
    /\ pc' = IF Tail(todoR) = <<>> THEN "commit" ELSE "rows"
    /\ UNCHANGED <<tables, now, history, todoE, base, seen, batchvars>>

\* conn.commit(); return conn.total_changes - before
CommitAndReturn ==
    /\ pc = "commit"
    /\ Commit(conn)
    /\ ret' = Some(conn.total_changes - 0)
    /\ pc' = "idle"
    /\ nOps' = nOps + 1
    /\ now' = now + 1
    /\ UNCHANGED <<op, arg, conn, todoE, todoR, base, seen, batchvars>>

\* a statement or the commit raises (sqlite3.Error: a value that cannot be
\* bound, an I/O error, a locked database); the finally block closes the
\* connection and the exception leaves the function
Raise ==
    /\ pc \in {"endpoints", "rows", "commit"}
    /\ LET t == TablesAfterClose(conn) IN
       /\ endpoints' = t.endpoints
       /\ verifications' = t.verifications
       /\ probes' = t.probes
       /\ probe_seq' = t.probe_seq
    /\ ret' = None
    /\ pc' = "failed"
    /\ nOps' = nOps + 1
    /\ now' = now + 1
    /\ UNCHANGED <<op, arg, conn, todoE, todoR, base, seen, batchvars>>

\* fetch_verifications / fetch_probes / get_endpoints of a concurrent reader
\* (the API handlers): its own connection reads the committed tables
Fetch ==
    /\ seen' = Committed
    /\ UNCHANGED <<tables, now, history, pc, conn, todoE, todoR, base, batchvars>>

TxVerificationArgs ==
    {WithIp(ShapeFullGeo, Some(IpA)), WithIp(ShapeTransport, Some(IpB)),
     WithIp(ShapeTransport, None)}

TxProbeArgs == {ProbeOk(Some(IpA)), ProbeFailed(Some(IpB))}

NextTx ==
    \/ \E results \in SeqsUpTo(TxVerificationArgs, MaxBatch) :
           begin_store_verifications(results)
    \/ \E results \in SeqsUpTo(TxProbeArgs, MaxBatch) : begin_store_probes(results)
    \/ ExecEndpoint
    \/ ExecRow
    \/ CommitAndReturn
    \/ Raise
    \/ Fetch

SpecTx == Init /\ [][NextTx]_vars

\* ------------------------------------------------ what a call hands back
\* a call either returns a value or raises an exception with a message
Return(v) == [raised |-> FALSE, value |-> Some(v), message |-> None]
RaiseError(msg) == [raised |-> TRUE, value |-> None, message |-> Some(msg)]

\* ---------------------------------------------------------- core/verify.py
\* m.startswith(prefix)
StartsWith(m, prefix) ==
    Len(m) >= Len(prefix) /\ SubSeq(m, 1, Len(prefix)) = prefix

PREFERRED_PROBE_MODELS == <<"phi", "qwen2.5:0.5b", "qwen2.5:1.5b", "llama3.2:1b">>

\* the bug of taking the first name that starts with any preferred prefix
_pick_probe_model_ListOrder(models) ==
    LET normalized == SelectSeq(models, LAMBDA m : m # "")
        hits == SelectSeq(normalized, LAMBDA m :
                    \E k \in DOMAIN PREFERRED_PROBE_MODELS :
                        StartsWith(m, PREFERRED_PROBE_MODELS[k]))
    IN  IF hits # <<>> THEN Some(Head(hits))
        ELSE IF normalized # <<>> THEN Some(Head(normalized)) ELSE None

\* _pick_probe_model: the first name of the first preferred prefix that has
\* one, else the first name
_pick_probe_model(models) ==
    LET normalized == SelectSeq(models, LAMBDA m : m # "")
        hits(p) == SelectSeq(normalized, LAMBDA m : StartsWith(m, p))
        found == {k \in DOMAIN PREFERRED_PROBE_MODELS :
                      hits(PREFERRED_PROBE_MODELS[k]) # <<>>}
    IN  IF found # {}
        THEN Some(Head(hits(PREFERRED_PROBE_MODELS[
                 CHOOSE k \in found : \A j \in found : k <= j])))
        ELSE IF normalized # <<>> THEN Some(Head(normalized)) ELSE None

\* the bug of reporting the decoder's message alone
InvalidJsonError_Bare(detail) == detail

\* f"invalid json: {exc}"
InvalidJsonError(detail) == "invalid json: " \o detail

\* f"status {resp.status_code}"
StatusError(code) == IF code = 500 THEN "status 500" ELSE "status 404"

\* str.isalpha of one character, for the characters that occur
UpperLetters == {"G", "I", "N", "P"}
LowerLetters == {"a", "e", "g", "h", "i", "l", "n", "o", "p"}
IsAlpha(ch) == ch \in UpperLetters \cup LowerLetters

\* what POST /api/chat does:
\*   post     "error" (any exception of requests.post) or "response"
\*   status   the status code of the response
\*   content  data["message"]["content"] when the body is JSON of that
\*            shape and the content is a str, else None
ChatRefused == [post |-> "error", status |-> 0, content |-> None]
ChatStatus(code, text) == [post |-> "response", status |-> code, content |-> Some(text)]
ChatNoContent == [post |-> "response", status |-> 200, content |-> None]
ChatText(text) == ChatStatus(200, text)

\* what a host does when verify_endpoint talks to it:
\*   get     "timeout" (requests.RequestException), "crash" (any other
\*           exception leaving requests.get), or "response"
\*   status  the status code of the response
\*   tags    the model names of the JSON body, None when the body is not JSON
\*   chat    what POST /api/chat does
\*   geo     what geolocate_ip returns: None, or the five geo fields
HostTimeout ==
    [get |-> "timeout", message |-> "timed out", status |-> 0, latency_ms |-> 0,
     tags |-> None, chat |-> ChatRefused, geo |-> None]

HostCrash ==
    [get |-> "crash", message |-> "boom", status |-> 0, latency_ms |-> 0,
     tags |-> None, chat |-> ChatRefused, geo |-> None]

HostStatus500 ==
    [get |-> "response", message |-> "", status |-> 500, latency_ms |-> 3,
     tags |-> Some(<<"m">>), chat |-> ChatText(<<"h", "i", "!">>), geo |-> None]

HostNotJson ==
    [get |-> "response", message |-> "", status |-> 200, latency_ms |-> 3,
     tags |-> None, chat |-> ChatText(<<"h", "i", "!">>), geo |-> None]

HostNoModels ==
    [get |-> "response", message |-> "", status |-> 200, latency_ms |-> 4,
     tags |-> Some(<<>>), chat |-> ChatText(<<"h", "i", "!">>), geo |-> None]

HostGibberish ==
    [get |-> "response", message |-> "", status |-> 200, latency_ms |-> 9,
     tags |-> Some(<<"m", "phi">>), chat |-> ChatText(<<"1", " ", "1">>), geo |-> None]

HostHealthy ==
    [get |-> "response", message |-> "", status |-> 200, latency_ms |-> 7,
     tags |-> Some(<<"m">>), chat |-> ChatText(<<"h", "i", "!">>), geo |-> None]

HostHealthyGeo ==
    [get |-> "response", message |-> "", status |-> 200, latency_ms |-> 7,
     tags |-> Some(<<"n", "m">>), chat |-> ChatText(<<"h", "i", "!">>),
     geo |-> Some([lat |-> Some(1), lon |-> Some(1), city |-> Some("c1"),
                   region |-> None, country |-> Some("k1")])]

NoGeo == [lat |-> None, lon |-> None, city |-> None, region |-> None, country |-> None]

\* _inference_probe: the reply text of one call of /api/chat, None when the
\* call raises, the status is not 200 or the body carries no content str
_inference_probe(chat) ==
    IF chat.post # "response" \/ chat.status # 200 THEN None ELSE chat.content

\* text.split(): the maximal runs of characters that are not whitespace
RECURSIVE Split(_)
Split(text) ==
    LET s == LStrip(text)
        k == CHOOSE n \in 1..Len(s) :
                 /\ \A i \in 1..n : ~IsSpace(s[i])
                 /\ n = Len(s) \/ IsSpace(s[n + 1])
    IN  IF s = <<>> THEN <<>>
        ELSE <<SubSeq(s, 1, k)>> \o Split(SubSeq(s, k + 1, Len(s)))

\* the bug of accepting a reply when just half of its tokens have a letter
_looks_like_language_HalfIsEnough(text) ==
    LET tokens == Split(text)
        alphaish == Len(SelectSeq(tokens, LAMBDA token :
                            SelectSeq(token, IsAlpha) # <<>>))
    IN  IF Len(text) < 3 \/ Len(text) > 200 THEN FALSE
        ELSE 2 * alphaish >= Max2(Len(tokens), 1)

\* _looks_like_language: alphaish / max(len(tokens), 1) > 0.5
_looks_like_language(text) ==
    LET tokens == Split(text)
        alphaish == Len(SelectSeq(tokens, LAMBDA token :
                            SelectSeq(token, IsAlpha) # <<>>))
    IN  IF Len(text) < 3 \/ Len(text) > 200 THEN FALSE
        ELSE 2 * alphaish > Max2(Len(tokens), 1)

\* a result dict of verify_endpoint; a key that is not set reads as None
VerifyResult(ip, ok, models, latency_ms, error, geo) ==
    [ip |-> Some(ip), ok |-> ok, models |-> Some(models),
     latency_ms |-> latency_ms, error |-> error,
     lat |-> geo.lat, lon |-> geo.lon, city |-> geo.city,
     region |-> geo.region, country |-> geo.country]

\* what a call of verify_endpoint did: its outcome and its HTTP requests
Ran(outcome, requests) == [outcome |-> outcome, requests |-> requests]

GetTags == "GET /api/tags"
\* the POST of _inference_probe, with the model of its payload
PostChat(model) == "POST /api/chat " \o model

\* the bug of asking for an inference whatever the metadata fetch gave
verify_endpoint_run_AlwaysInfers(ip, host) ==
    LET latency_ms == Some(host.latency_ms)
        models == IF host.tags = None THEN <<>> ELSE Val(host.tags)
        probe_model == _pick_probe_model(models)
        reply == _inference_probe(host.chat)
    IN  IF host.get = "crash" THEN Ran(RaiseError(host.message), <<GetTags>>)
        ELSE IF host.get = "timeout"
        THEN Ran(Return(VerifyResult(ip, FALSE, <<>>, None, Some(host.message), NoGeo)),
                 <<GetTags, PostChat("")>>)
        ELSE IF host.status # 200
        THEN Ran(Return(VerifyResult(ip, FALSE, <<>>, latency_ms,
                                     Some(StatusError(host.status)), NoGeo)),
                 <<GetTags, PostChat("")>>)
        ELSE IF host.tags = None
        THEN Ran(Return(VerifyResult(ip, FALSE, <<>>, latency_ms,
                                     Some(InvalidJsonError("Expecting value")), NoGeo)),
                 <<GetTags, PostChat("")>>)
        ELSE IF probe_model = None
        THEN Ran(Return(VerifyResult(ip, FALSE, models, latency_ms,
                                     Some("no_probe_model"), NoGeo)),
                 <<GetTags>>)
        ELSE IF reply = None \/ Val(reply) = <<>> \/ ~_looks_like_language(Val(reply))
        THEN Ran(Return(VerifyResult(ip, FALSE, models, latency_ms,
                                     Some("inference_gibberish"), NoGeo)),
                 <<GetTags, PostChat(Val(probe_model))>>)
        ELSE Ran(Return(VerifyResult(ip, TRUE, models, latency_ms, None,
                                     IF host.geo # None THEN Val(host.geo) ELSE NoGeo)),
                 <<GetTags, PostChat(Val(probe_model))>>)

\* verify_endpoint(ip) with the HTTP requests it makes on the way
verify_endpoint_run(ip, host) ==
    LET latency_ms == Some(host.latency_ms)
        models == IF host.tags = None THEN <<>> ELSE Val(host.tags)
        probe_model == _pick_probe_model(models)
        reply == _inference_probe(host.chat)
    IN  IF host.get = "crash" THEN Ran(RaiseError(host.message), <<GetTags>>)
        ELSE IF host.get = "timeout"
        THEN Ran(Return(VerifyResult(ip, FALSE, <<>>, None, Some(host.message), NoGeo)),
                 <<GetTags>>)
        ELSE IF host.status # 200
        THEN Ran(Return(VerifyResult(ip, FALSE, <<>>, latency_ms,
                                     Some(StatusError(host.status)), NoGeo)),
                 <<GetTags>>)
        ELSE IF host.tags = None
        THEN Ran(Return(VerifyResult(ip, FALSE, <<>>, latency_ms,
                                     Some(InvalidJsonError("Expecting value")), NoGeo)),
                 <<GetTags>>)
        ELSE IF probe_model = None
        THEN Ran(Return(VerifyResult(ip, FALSE, models, latency_ms,
                                     Some("no_probe_model"), NoGeo)),
                 <<GetTags>>)
        ELSE IF reply = None \/ Val(reply) = <<>> \/ ~_looks_like_language(Val(reply))
        THEN Ran(Return(VerifyResult(ip, FALSE, models, latency_ms,
                                     Some("inference_gibberish"), NoGeo)),
                 <<GetTags, PostChat(Val(probe_model))>>)
        ELSE Ran(Return(VerifyResult(ip, TRUE, models, latency_ms, None,
                                     IF host.geo # None THEN Val(host.geo) ELSE NoGeo)),
                 <<GetTags, PostChat(Val(probe_model))>>)

\* verify_endpoint(ip): what the call hands back
verify_endpoint(ip, host) == verify_endpoint_run(ip, host).outcome

\* ----------------------------------------------------------- core/probe.py
PROBE_PREFERENCE == <<"llama3", "phi", "mistral", "qwen">>

\* the bug of taking the first name in the list as the fallback
select_probe_model_FirstName(models) ==
    LET given == SelectSeq(models, LAMBDA m : m # "")
        normalized == [i \in DOMAIN given |-> StrStrip(given[i])]
        hits(p) == {i \in DOMAIN normalized : StrLower(normalized[i]) = p}
        found == {k \in DOMAIN PROBE_PREFERENCE : hits(PROBE_PREFERENCE[k]) # {}}
        first == CHOOSE k \in found : \A j \in found : k <= j
        last == CHOOSE i \in hits(PROBE_PREFERENCE[first]) :
                    \A j \in hits(PROBE_PREFERENCE[first]) : j <= i
    IN  IF normalized = <<>> THEN None
        ELSE IF found # {} THEN Some(normalized[last])
        ELSE Some(normalized[1])

\* sorted(normalized, key=lambda m: (len(m), m)): a comes before b
ShorterThenLexicographic(a, b) ==
    Len(a) < Len(b) \/ (Len(a) = Len(b) /\ StrLess(a, b))

\* select_probe_model: the name whose lower-case form is the first preferred
\* name that occurs (lower_map keeps the last name of each lower-case form),
\* else the first of the names sorted by length, then lexicographically
select_probe_model(models) ==
    LET given == SelectSeq(models, LAMBDA m : m # "")
        normalized == [i \in DOMAIN given |-> StrStrip(given[i])]
        hits(p) == {i \in DOMAIN normalized : StrLower(normalized[i]) = p}
        found == {k \in DOMAIN PROBE_PREFERENCE : hits(PROBE_PREFERENCE[k]) # {}}
        first == CHOOSE k \in found : \A j \in found : k <= j
        last == CHOOSE i \in hits(PROBE_PREFERENCE[first]) :
                    \A j \in hits(PROBE_PREFERENCE[first]) : j <= i
        smallest == CHOOSE i \in DOMAIN normalized :
                        \A j \in DOMAIN normalized :
                            ~ShorterThenLexicographic(normalized[j], normalized[i])
    IN  IF normalized = <<>> THEN None
        ELSE IF found # {} THEN Some(normalized[last])
        ELSE Some(normalized[smallest])

\* what a host does when probe_node posts to /api/generate:
\*   post    "timeout" (requests.RequestException) or "response"
\*   text    resp.text
\*   json    None when resp.json() raises ValueError, else the keys "response"
\*           and "message" of the dict: message.kind is "absent", "dict" (with
\*           its "content") or "other" (a string, a list, null)
NoMessage == [kind |-> "absent", content |-> None]

ProbeHostTimeout ==
    [post |-> "timeout", error |-> "timed out", status |-> 0, latency_ms |-> 0,
     text |-> <<>>, json |-> None]

ProbeHostPing ==
    [post |-> "response", error |-> "", status |-> 200, latency_ms |-> 5,
     text |-> <<"{", "}">>,
     json |-> Some([response |-> Some(<<"P", "i", "n", "g", "!">>), message |-> NoMessage])]

ProbeHostPong ==
    [post |-> "response", error |-> "", status |-> 200, latency_ms |-> 6,
     text |-> <<"p", "o", "n", "g">>, json |-> None]

ProbeHostMalformed ==
    [post |-> "response", error |-> "", status |-> 200, latency_ms |-> 6,
     text |-> <<"{", "}">>,
     json |-> Some([response |-> None,
                    message |-> [kind |-> "other", content |-> None]])]

\* _extract_response_text(resp)
_extract_response_text(resp) ==
    LET text_body == resp.text
        data == Val(resp.json)
    IN  IF resp.json = None THEN Return(text_body)
        ELSE IF data.response # None /\ Val(data.response) # <<>>
        THEN Return(Val(data.response))
        ELSE IF data.message.kind = "other"
        THEN RaiseError("'str' object has no attribute 'get'")
        ELSE IF data.message.kind = "dict" /\ data.message.content # None
                /\ Val(data.message.content) # <<>>
        THEN Return(Val(data.message.content))
        ELSE Return(text_body)

\* _is_ping: "".join(ch for ch in text.lower() if ch.isalpha()) == "ping"
_is_ping(text) ==
    LET lowered == [i \in DOMAIN text |-> Lower(text[i])]
        normalized == SelectSeq(lowered, IsAlpha)
    IN  normalized = <<"p", "i", "n", "g">>

ProbeResult(ip, model, success, latency_ms, status_code, error, body) ==
    [ip |-> Some(ip), model |-> model, success |-> success,
     latency_ms |-> latency_ms, status_code |-> status_code,
     error |-> error, body |-> body]

PostGenerate == "POST /api/generate"

\* the bug of testing "model is None" where "not model" is meant
probe_node_run_NoneOnly(ip, available_models, host) ==
    LET model == select_probe_model(available_models)
        extracted == _extract_response_text(host)
        text_body == Val(extracted.value)
        success == host.status = 200 /\ _is_ping(text_body)
        error == IF success THEN None
                 ELSE IF host.status = 200 THEN Some("unexpected_output")
                 ELSE Some(StatusError(host.status))
    IN  IF model = None
        THEN Ran(Return(ProbeResult(ip, None, FALSE, None, None,
                                    Some("no models available"), None)),
                 <<>>)
        ELSE IF host.post = "timeout"
        THEN Ran(Return(ProbeResult(ip, model, FALSE, None, None,
                                    Some(host.error), None)),
                 <<PostGenerate>>)
        ELSE IF extracted.raised THEN Ran(extracted, <<PostGenerate>>)
        ELSE Ran(Return(ProbeResult(ip, model, success, Some(host.latency_ms),
                                    Some(host.status), error, Some(text_body))),
                 <<PostGenerate>>)

\* probe_node(ip, available_models) with the HTTP requests it makes
probe_node_run(ip, available_models, host) ==
    LET model == select_probe_model(available_models)
        extracted == _extract_response_text(host)
        text_body == Val(extracted.value)
        success == host.status = 200 /\ _is_ping(text_body)
        error == IF success THEN None
                 ELSE IF host.status = 200 THEN Some("unexpected_output")
                 ELSE Some(StatusError(host.status))
    IN  IF model = None \/ Val(model) = ""
        THEN Ran(Return(ProbeResult(ip, None, FALSE, None, None,
                                    Some("no models available"), None)),
                 <<>>)
        ELSE IF host.post = "timeout"
        THEN Ran(Return(ProbeResult(ip, model, FALSE, None, None,
                                    Some(host.error), None)),
                 <<PostGenerate>>)
        ELSE IF extracted.raised THEN Ran(extracted, <<PostGenerate>>)
        ELSE Ran(Return(ProbeResult(ip, model, success, Some(host.latency_ms),
                                    Some(host.status), error, Some(text_body))),
                 <<PostGenerate>>)

\* probe_node(ip, available_models): what the call hands back
probe_node(ip, available_models, host) ==
    probe_node_run(ip, available_models, host).outcome

\* --------------------------------------------------------- core/scoring.py
\* Scores are floats in the code; here they are counted in thousandths of a
\* point (60.0 is 60000), which is exact for the latency penalty of an integer
\* latency and rounds the logarithm down to three decimals.
MAX_SCORE == 100 * 1000
BASE_OK_SCORE == 60 * 1000
MODEL_BONUS_WEIGHT == 12
MODEL_BONUS_CAP == 20 * 1000
LATENCY_TARGET_MS == 500
LATENCY_PENALTY_MAX == 40 * 1000

\* 1000 * math.log10(k), rounded down, for k = 1..50
Log10Table ==
    <<
      0, 301, 477, 602, 698, 778, 845, 903, 954, 1000,
      1041, 1079, 1113, 1146, 1176, 1204, 1230, 1255, 1278, 1301,
      1322, 1342, 1361, 1380, 1397, 1414, 1431, 1447, 1462, 1477,
      1491, 1505, 1518, 1531, 1544, 1556, 1568, 1579, 1591, 1602,
      1612, 1623, 1633, 1643, 1653, 1662, 1672, 1681, 1690, 1698
    >>


\* _model_bonus(models)
_model_bonus(models) ==
    LET names == SelectSeq(models, LAMBDA m : m # "")
        bonus == MODEL_BONUS_WEIGHT * Log10Table[1 + Len(names)]
    IN  IF names = <<>> THEN 0 ELSE Min2(bonus, MODEL_BONUS_CAP)

\* _latency_penalty(latency_ms): (ratio - 1.0) * (LATENCY_PENALTY_MAX / 2) with
\* ratio = latency_ms / LATENCY_TARGET_MS, between 0 and LATENCY_PENALTY_MAX
_latency_penalty(latency_ms) ==
    LET penalty == ((Val(latency_ms) - LATENCY_TARGET_MS) * (LATENCY_PENALTY_MAX \div 2))
                       \div LATENCY_TARGET_MS
    IN  IF latency_ms = None \/ Val(latency_ms) <= 0 THEN 0
        ELSE Min2(Max2(0, penalty), LATENCY_PENALTY_MAX)

\* the bug of scoring a record whose ok is false like a healthy one
score_verification_IgnoresOk(rec) ==
    LET models == IF rec.models = None THEN <<>> ELSE Val(rec.models)
        score == BASE_OK_SCORE + _model_bonus(models) - _latency_penalty(rec.latency_ms)
    IN  Max2(0, Min2(score, MAX_SCORE))

\* score_verification(rec)
score_verification(rec) ==
    LET models == IF rec.models = None THEN <<>> ELSE Val(rec.models)
        score == BASE_OK_SCORE + _model_bonus(models) - _latency_penalty(rec.latency_ms)
    IN  IF ~rec.ok THEN 0
        ELSE Max2(0, Min2(score, MAX_SCORE))

\* row = dict(rec); row["score"] = score_verification(rec)
Enriched(rec) ==
    [k \in DOMAIN rec \cup {"score"} |->
        IF k = "score" THEN score_verification(rec) ELSE rec[k]]

\* the bug of a sort that puts a row before the rows of equal score
InsertByScore_BeforeTies(row, rows) ==
    LET k == Cardinality({i \in DOMAIN rows : rows[i].score > row.score})
    IN  SubSeq(rows, 1, k) \o <<row>> \o SubSeq(rows, k + 1, Len(rows))

\* one step of sorted(..., reverse=True): row goes behind the rows whose score
\* is at least its own (the sort is stable, reverse=True keeps it so)
InsertByScore(row, rows) ==
    LET k == Cardinality({i \in DOMAIN rows : rows[i].score >= row.score})
    IN  SubSeq(rows, 1, k) \o <<row>> \o SubSeq(rows, k + 1, Len(rows))

\* sorted(enriched, key=lambda r: r.get("score", 0.0), reverse=True)
RECURSIVE SortedByScore(_)
SortedByScore(enriched) ==
    IF enriched = <<>> THEN <<>>
    ELSE InsertByScore(enriched[Len(enriched)],
                       SortedByScore(SubSeq(enriched, 1, Len(enriched) - 1)))

\* rank_verifications(records)
rank_verifications(records) ==
    SortedByScore([i \in DOMAIN records |-> Enriched(records[i])])

\* ------------------------------------------------------------ main.py: main
IpC == <<"c">>
IpD == <<"d">>
Ips == <<IpA, IpB, IpC, IpD>>

\* what discover_candidates hands back: DiscoveryError, or a deduplicated list
DiscoveryOutcomes ==
    {RaiseError("Shodan query failed")}
    \cup {Return(SubSeq(Ips, 1, n)) : n \in 0..MaxCandidates}

\* the hosts behind the candidates
VerifyHosts == {HostTimeout, HostCrash, HostGibberish, HostHealthy, HostHealthyGeo}
ProbeHosts == {ProbeHostTimeout, ProbeHostPing, ProbeHostPong, ProbeHostMalformed}

\* the bug of counting the wrong table
get_endpoint_count_Verifications == Len(verifications)

\* get_endpoint_count()
get_endpoint_count == Len(endpoints)

\* get_endpoints(): the non-empty ips, oldest first (rows are kept in the
\* order of their insertion, which is the order of discovered_at)
get_endpoints ==
    LET ips == [i \in DOMAIN endpoints |-> endpoints[i].ip]
    IN  SelectSeq(ips, LAMBDA ip : ip # <<>>)

\* a future of the pool: queued, running, or done with what the call handed back
Queued == [st |-> "queued", out |-> None, collected |-> FALSE]

Running(S) == {i \in DOMAIN S : S[i].st = "running"}

\* the bug of dropping the outcome of a task that raised
Collected_Drop(ip, out) == IF out.raised THEN <<>> ELSE <<Val(out.value)>>

\* the body of the as_completed loop: what one future adds to results
Collected(ip, out) ==
    IF out.raised
    THEN <<VerifyResult(ip, FALSE, <<>>, None, out.message, NoGeo)>>
    ELSE <<Val(out.value)>>

\* probe_candidates = [r for r in results if r.get("ok") and r.get("models")]
probe_candidates ==
    SelectSeq(main_results, LAMBDA r : r.ok /\ r.models # None /\ Val(r.models) # <<>>)

\* csv.DictWriter raises ValueError for a key outside its fieldnames:
\* fetch_verifications adds lat/lon, city, region, country when they are set
HasExtraKeys(rec) ==
    \/ rec.lat # None /\ rec.lon # None
    \/ rec.city # None /\ Val(rec.city) # ""
    \/ rec.region # None /\ Val(rec.region) # ""
    \/ rec.country # None /\ Val(rec.country) # ""

\* the store already holds endpoints: they are the candidates
MainStored ==
    /\ bpc = "start"
    /\ get_endpoint_count > 0
    /\ candidates' = get_endpoints
    /\ bpc' = IF get_endpoints = <<>> THEN "exit0" ELSE "submit"
    /\ UNCHANGED <<tables, now, history, txvars, tasks, main_results,
                   probe_results, csv,
                   discovery_calls, probe_calls, ranked, requests_made>>

\* an empty store: discover, and store what was found
MainDiscover(found) ==
    /\ bpc = "start"
    /\ get_endpoint_count = 0
    /\ discovery_calls' = discovery_calls + 1
    /\ IF found.raised
       THEN /\ bpc' = "exit1"
            /\ UNCHANGED <<tables, now, history, candidates>>
       ELSE IF Val(found.value) = <<>>
       THEN /\ bpc' = "exit0"
            /\ UNCHANGED <<tables, now, history, candidates>>
       ELSE /\ store_endpoints(Val(found.value))
            /\ candidates' = Val(found.value)
            /\ bpc' = "submit"
    /\ UNCHANGED <<txvars, tasks, main_results, probe_results, csv,
                   probe_calls, ranked, requests_made>>

\* executor.submit(verify_endpoint, ip) for every candidate
MainSubmit ==
    /\ bpc = "submit"
    /\ tasks' = [i \in DOMAIN candidates |-> Queued]
    /\ bpc' = "collect"
    /\ UNCHANGED <<tables, now, history, txvars, candidates, main_results,
                   probe_results, csv,
                   discovery_calls, probe_calls, ranked, requests_made>>

\* the bug of a pool that starts a thread for every call
HasIdleWorker_Unbounded(S) == TRUE

\* ThreadPoolExecutor(max_workers=...): a worker thread is free or can be started
HasIdleWorker(S) == Cardinality(Running(S)) < max_workers

\* a free worker thread takes the oldest queued call
WorkerStart(i) ==
    /\ tasks[i].st = "queued"
    /\ \A j \in 1..(i - 1) : tasks[j].st # "queued"
    /\ HasIdleWorker(tasks)
    /\ tasks' = [tasks EXCEPT ![i].st = "running"]
    /\ UNCHANGED <<tables, now, history, txvars, bpc, candidates, main_results,
                   probe_results, csv,
                   discovery_calls, probe_calls, ranked, requests_made>>

\* verify_endpoint returns or raises: the future is done
WorkerFinish(i, host) ==
    /\ tasks[i].st = "running"
    /\ tasks' = [tasks EXCEPT ![i].st = "done",
                              ![i].out = Some(verify_endpoint(candidates[i], host))]
    /\ UNCHANGED <<tables, now, history, txvars, bpc, candidates, main_results,
                   probe_results, csv,
                   discovery_calls, probe_calls, ranked, requests_made>>

\* the bug of keying a crashed future by its place in the completion order
\* instead of by future_to_ip[future]
MainCollect_ByPosition(i) ==
    LET out == Val(tasks[i].out)
        ip == IF out.raised THEN candidates[Len(main_results) + 1] ELSE candidates[i]
    IN  /\ bpc = "collect"
        /\ tasks[i].st = "done"
        /\ ~tasks[i].collected
        /\ main_results' = main_results \o Collected(ip, out)
        /\ tasks' = [tasks EXCEPT ![i].collected = TRUE]
        /\ UNCHANGED <<tables, now, history, txvars, bpc, candidates, probe_results, csv,
                       discovery_calls, probe_calls, ranked, requests_made>>

\* as_completed yields a future that is done: result() or the except branch
MainCollect(i) ==
    /\ bpc = "collect"
    /\ tasks[i].st = "done"
    /\ ~tasks[i].collected
    /\ main_results' = main_results \o Collected(candidates[i], Val(tasks[i].out))
    /\ tasks' = [tasks EXCEPT ![i].collected = TRUE]
    /\ UNCHANGED <<tables, now, history, txvars, bpc, candidates, probe_results, csv,
                   discovery_calls, probe_calls, ranked, requests_made>>

\* the bug of leaving the as_completed loop at the first future
Exhausted_First(S) == \E i \in DOMAIN S : S[i].collected

\* "for future in as_completed(future_to_ip)" ends: it has yielded every future
Exhausted(S) == \A i \in DOMAIN S : S[i].collected

\* as_completed is exhausted, the pool shuts down: store_verifications(results)
MainStore ==
    /\ bpc = "collect"
    /\ Exhausted(tasks)
    /\ store_verifications(main_results)
    /\ bpc' = "csv"
    /\ UNCHANGED <<txvars, candidates, tasks, main_results, probe_results, csv,
                   discovery_calls, probe_calls, ranked, requests_made>>

\* dump_verifications_csv(); a ValueError of the writer leaves main
MainCsv ==
    LET records == [i \in DOMAIN verifications |-> FetchedVerification(verifications[i])]
    IN  /\ bpc = "csv"
        /\ IF records = <<>>
           THEN csv' = csv /\ bpc' = "probe"
           ELSE IF \E i \in DOMAIN records : HasExtraKeys(records[i])
           THEN csv' = "partial" /\ bpc' = "crashed"
           ELSE csv' = "written" /\ bpc' = "probe"
        /\ UNCHANGED <<tables, now, history, txvars, candidates, tasks, main_results,
                       probe_results,
                   discovery_calls, probe_calls, ranked, requests_made>>

\* the list comprehension [probe_node(r["ip"], r.get("models", [])) for r in
\* probe_candidates] reaches its next element: main itself calls probe_node
MainProbeCall ==
    /\ bpc = "probe"
    /\ Len(probe_results) < Len(probe_candidates)
    /\ bpc' = "probing"
    /\ probe_calls' = Append(probe_calls,
           LET r == probe_candidates[Len(probe_results) + 1]
           IN  [ip |-> r.ip, available_models |-> r.models])
    /\ UNCHANGED <<tables, now, history, txvars, candidates, tasks, main_results,
                   probe_results, csv,
                   discovery_calls, ranked, requests_made>>

\* probe_node returns, or raises: its exception leaves main
MainProbe(host) ==
    LET r == probe_candidates[Len(probe_results) + 1]
        out == probe_node(Val(r.ip), Val(r.models), host)
    IN  /\ bpc = "probing"
        /\ IF out.raised
           THEN bpc' = "crashed" /\ UNCHANGED probe_results
           ELSE bpc' = "probe" /\ probe_results' = Append(probe_results, Val(out.value))
        /\ UNCHANGED <<tables, now, history, txvars, candidates, tasks, main_results, csv,
                   discovery_calls, probe_calls, ranked, requests_made>>

\* store_probes(probe_results) if probe_results else 0
MainStoreProbes ==
    /\ bpc = "probe"
    /\ Len(probe_results) = Len(probe_candidates)
    /\ IF probe_results # <<>>
       THEN store_probes(probe_results)
       ELSE UNCHANGED <<tables, now, history>>
    /\ bpc' = "rank"
    /\ UNCHANGED <<txvars, candidates, tasks, main_results, probe_results, csv,
                   discovery_calls, probe_calls, ranked, requests_made>>

\* ranked = rank_verifications(results); the ranking is printed; return 0
MainRank ==
    /\ bpc = "rank"
    /\ bpc' = "exit0"
    /\ ranked' = rank_verifications(main_results)
    /\ UNCHANGED <<tables, now, history, txvars, candidates, tasks, main_results,
                   probe_results, csv,
                   discovery_calls, probe_calls, requests_made>>

\* an earlier run of main has stored what it discovered
EarlierDiscovery(found) ==
    /\ bpc = "start"
    /\ nOps = 0
    /\ ~found.raised
    /\ store_endpoints(Val(found.value))
    /\ UNCHANGED <<txvars, batchvars>>

NextBatch ==
    \/ \E found \in DiscoveryOutcomes : EarlierDiscovery(found)
    \/ MainStored
    \/ \E found \in DiscoveryOutcomes : MainDiscover(found)
    \/ MainSubmit
    \/ \E i \in DOMAIN tasks : WorkerStart(i)
    \/ \E i \in DOMAIN tasks : \E host \in VerifyHosts : WorkerFinish(i, host)
    \/ \E i \in DOMAIN tasks : MainCollect(i)
    \/ MainStore
    \/ MainCsv
    \/ MainProbeCall
    \/ \E host \in ProbeHosts : MainProbe(host)
    \/ MainStoreProbes
    \/ MainRank

SpecBatch == Init /\ [][NextBatch]_vars

\* ----------------------------------------------------- notions of the claims
IsPrefix(s, t) == Len(s) <= Len(t) /\ SubSeq(t, 1, Len(s)) = s

Max(S) == CHOOSE x \in S : \A y \in S : y <= x

GeoFields == {"lat", "lon", "city", "region", "country"}

\* an input record carries an ip when the key is there, not None and not ""
CarriesIp(item) == item.ip # None /\ item.ip # Some(<<>>)

IndicesWithIp(items) == {i \in DOMAIN items : CarriesIp(items[i])}

\* the ips a batch of records carries
IpsOf(items) == {Val(items[i].ip) : i \in IndicesWithIp(items)}

\* the last record of the batch for ip
LastFor(items, ip) == items[Max({i \in DOMAIN items : items[i].ip = Some(ip)})]

\* the value field f of ip ends with: the last non-null one of the batch, else the stored one
LastNonNull(items, ip, f, stored) ==
    LET idx == {i \in DOMAIN items : items[i].ip = Some(ip) /\ items[i][f] # None}
    IN  IF idx = {} THEN stored ELSE items[Max(idx)][f]

RowsFor(table, ip) == {i \in DOMAIN table : table[i].ip = ip}

RowFor(table, ip) == table[CHOOSE i \in DOMAIN table : table[i].ip = ip]

\* ------------------------------------------------------------------ claims

\* C1: geolocation fields are sticky. Over any call of store_verifications and
\* for each stored row and each of lat, lon, city, region, country: the row
\* stays, a non-null value is never replaced by null, and the value after the
\* call is the last non-null incoming value for that ip, or the stored value
\* when every incoming value is null.
C1_GeoFieldsSticky ==
    [][op' = "store_verifications" =>
          \A i \in DOMAIN verifications : \A f \in GeoFields :
              LET old == verifications[i] IN
              /\ Cardinality(RowsFor(verifications', old.ip)) = 1
              /\ LET new == RowFor(verifications', old.ip) IN
                 /\ old[f] # None => new[f] # None
                 /\ new[f] = LastNonNull(arg', old.ip, f, old[f])]_vars

\* a failed re-verification without geo keys has left the geo fields of ip a in place
C1_Witness ==
    /\ op = "store_verifications"
    /\ arg = <<WithIp(ShapeTransport, Some(IpA))>>
    /\ \E i \in DOMAIN verifications :
           /\ verifications[i].ip = IpA
           /\ verifications[i].ok = 0
           /\ \A f \in GeoFields : verifications[i][f] # None

\* C2: re-verification is last-write-wins for the non-geo fields. After
\* store_verifications with records for an ip that already has a row, the
\* fetched ok, models, latency_ms and error are those of the last incoming
\* record for that ip, and checked_at is the time of this call.
C2_LastWriteWins ==
    [][op' = "store_verifications" =>
          \A ip \in IpsOf(arg') :
              RowsFor(verifications, ip) # {} =>
                  /\ RowsFor(verifications', ip) # {}
                  /\ LET last == LastFor(arg', ip)
                         rec == FetchedVerification(RowFor(verifications', ip))
                     IN  /\ rec.ok = last.ok
                         /\ rec.models = (IF last.models = None THEN <<>> ELSE Val(last.models))
                         /\ rec.latency_ms = last.latency_ms
                         /\ rec.error = last.error
                         /\ rec.checked_at = now]_vars

\* a success without place names has replaced a failure that had an error and
\* place names: the error is gone, the place names are still there
C2_Witness ==
    /\ op = "store_verifications"
    /\ arg = <<WithIp(ShapeCoordinates, Some(IpA))>>
    /\ \E i \in DOMAIN verifications :
           /\ verifications[i].ip = IpA
           /\ verifications[i].city = Some("c2")
           /\ verifications[i].error = None
           /\ verifications[i].latency_ms = Some(9)
           /\ verifications[i].checked_at = 1
\* C3: the verifications table holds at most one row per ip, a row never
\* goes away, and after store_verifications every ip the batch carries (also
\* one it carries several times) has exactly one row.
C3_OneVerificationPerIp ==
    [][/\ \A i \in DOMAIN verifications' :
              Cardinality(RowsFor(verifications', verifications'[i].ip)) = 1
       /\ \A i \in DOMAIN verifications :
              RowsFor(verifications', verifications[i].ip) # {}
       /\ op' = "store_verifications" =>
              \A ip \in IpsOf(arg') : Cardinality(RowsFor(verifications', ip)) = 1]_vars

\* a batch with ip a twice over a stored row of ip a has left one row of ip a
C3_Witness ==
    /\ op = "store_verifications"
    /\ nOps = 2
    /\ Len(arg) = 2
    /\ arg[1].ip = Some(IpA)
    /\ arg[2].ip = Some(IpA)
    /\ Cardinality(RowsFor(verifications, IpA)) = 1

EndpointIps(table) == {table[i].ip : i \in DOMAIN table}

\* C4: store_endpoints is insert-or-ignore keyed by the stripped ip. It returns
\* the number of distinct ips of the batch that were not stored before, leaves
\* every stored row as it was, stores no ip twice, and called with ips that
\* are all stored it returns 0 and changes nothing.
C4_InsertOrIgnore ==
    [][op' = "store_endpoints" =>
          LET given == {Strip(arg'[i]) : i \in {k \in DOMAIN arg' : arg'[k] # <<>>}}
              had == EndpointIps(endpoints)
          IN  /\ ret' = Some(Cardinality(given \ had))
              /\ IsPrefix(endpoints, endpoints')
              /\ EndpointIps(endpoints') = had \cup given
              /\ \A ip \in EndpointIps(endpoints') :
                     Cardinality(RowsFor(endpoints', ip)) = 1
              /\ given \subseteq had => ret' = Some(0) /\ endpoints' = endpoints]_vars

\* a second call with ips that are all stored has returned 0
C4_Witness ==
    /\ op = "store_endpoints"
    /\ nOps = 2
    /\ \E i \in DOMAIN arg : arg[i] # <<>>
    /\ ret = Some(0)
    /\ endpoints # <<>>

\* C5: the probe history is append-only. No call changes or removes a probe
\* row; store_probes adds one row per input record that carries an ip, in
\* input order, each with an id above every id before it.
C5_ProbesAppendOnly ==
    [][/\ IsPrefix(probes, probes')
       /\ op' # "store_probes" => probes' = probes
       /\ op' = "store_probes" =>
              LET added == SelectSeq(arg', CarriesIp) IN
              /\ Len(probes') = Len(probes) + Len(added)
              /\ \A k \in 1..Len(added) :
                     LET row == probes'[Len(probes) + k] IN
                     /\ row.ip = Val(added[k].ip)
                     /\ row.model = added[k].model
                     /\ \A j \in 1..(Len(probes) + k - 1) : probes'[j].id < row.id]_vars

\* two rows for the same ip and model
C5_Witness ==
    /\ op = "store_probes"
    /\ \E i, j \in DOMAIN probes :
           /\ i < j
           /\ probes[i].ip = probes[j].ip
           /\ probes[i].model = probes[j].model
           /\ probes[i].id < probes[j].id

\* C6: referential integrity. After every call the ip of every verification
\* row and of every probe row is the ip of an endpoint row, and the endpoint
\* rows there were are all still there, unchanged.
C6_ReferentialIntegrity ==
    [][/\ \A i \in DOMAIN verifications' :
              verifications'[i].ip \in EndpointIps(endpoints')
       /\ \A i \in DOMAIN probes' : probes'[i].ip \in EndpointIps(endpoints')
       /\ IsPrefix(endpoints, endpoints')]_vars

\* the first call was store_probes, for an endpoint nobody had stored
C6_Witness ==
    /\ op = "store_probes"
    /\ nOps = 1
    /\ probes # <<>>
    /\ \A i \in DOMAIN probes : probes[i].ip \in EndpointIps(endpoints)

\* C7: store_verifications and store_probes return the number of input
\* records that carry an ip, whether or not their endpoints were stored before.
C7_CountOfOwnRows ==
    op \in {"store_verifications", "store_probes"} =>
        ret = Some(Cardinality(IndicesWithIp(arg)))

\* C8: a record without an ip is skipped. store_verifications and store_probes
\* return normally, create endpoint, verification and probe rows only for the
\* ips the batch carries, and persist every record that carries one.
C8_RecordsWithoutIpSkipped ==
    [][op' \in {"store_verifications", "store_probes"} =>
          /\ ret' # None
          /\ EndpointIps(endpoints') = EndpointIps(endpoints) \cup IpsOf(arg')
          /\ op' = "store_verifications" =>
                 /\ EndpointIps(verifications') = EndpointIps(verifications) \cup IpsOf(arg')
                 /\ probes' = probes
                 /\ \A ip \in IpsOf(arg') :
                        LET last == LastFor(arg', ip)
                            rec == FetchedVerification(RowFor(verifications', ip))
                        IN  rec.ok = last.ok /\ rec.error = last.error
          /\ op' = "store_probes" =>
                 /\ verifications' = verifications
                 /\ Len(probes') = Len(probes) + Cardinality(IndicesWithIp(arg'))
                 /\ \A i \in Len(probes) + 1 .. Len(probes') : probes'[i].ip \in IpsOf(arg')]_vars

\* a batch of a record without ip and a record with one: the latter is stored
C8_Witness ==
    /\ op = "store_verifications"
    /\ ret # None
    /\ Len(arg) = 2
    /\ ~CarriesIp(arg[1])
    /\ arg[2].ip = Some(IpB)
    /\ RowsFor(verifications, IpB) # {}
    /\ EndpointIps(endpoints) = {IpB}

\* what a whole batch makes of the tables b at time t
WholeBatch(b, name, results, t) ==
    LET c0 == [endpoints |-> b.endpoints, verifications |-> b.verifications,
               probes |-> b.probes, probe_seq |-> b.probe_seq, total_changes |-> 0]
        payloads == IF name = "store_verifications"
                    THEN VerificationPayloads(results) ELSE ProbePayloads(results)
        c1 == ExecutemanyEndpoints(c0, PayloadIps(payloads), t)
        c2 == IF name = "store_verifications"
              THEN ExecutemanyVerifications(c1, payloads, t)
              ELSE ExecutemanyProbes(c1, payloads, t)
    IN  [endpoints |-> c2.endpoints, verifications |-> c2.verifications,
         probes |-> c2.probes, probe_seq |-> c2.probe_seq]

\* C9: a batch write is atomic and isolated. While store_verifications or
\* store_probes runs, and after it has raised, the committed tables are those
\* of the moment the call began (no endpoint, verification or probe row of the
\* batch is there, every earlier row is unchanged); the commit makes all rows
\* of the batch visible at once; a fetch returns the committed tables.
C9_BatchAtomic ==
    [][/\ pc' \in {"endpoints", "rows", "commit", "failed"} => Committed' = base'
       /\ pc = "commit" /\ pc' = "idle" => Committed' = WholeBatch(base, op, arg, now)
       /\ seen' # seen =>
              /\ seen' = Committed
              /\ pc \in {"endpoints", "rows", "commit", "failed"} => seen' = base]_vars

\* the second batch raised after it had inserted endpoint and verification
\* rows: they are gone and the rows of the first batch are there
C9_Witness ==
    /\ pc = "failed"
    /\ op = "store_verifications"
    /\ nOps = 2
    /\ verifications # <<>>
    /\ Len(conn.endpoints) > Len(endpoints)
    /\ Len(conn.verifications) > Len(verifications)
    /\ Committed = base

\* the pool of the batch is behind main
PastPool ==
    \/ bpc \in {"csv", "probe", "probing", "rank", "crashed"}
    \/ bpc = "exit0" /\ tasks # <<>>

\* the outcomes main holds for ip
OutcomesFor(ip) == {k \in DOMAIN main_results : main_results[k].ip = Some(ip)}

\* C10: one verification outcome per candidate. Every future main has
\* collected contributes exactly one outcome for its ip and no other future
\* contributes any: the dict verify_endpoint returned, or, when the call
\* raised, ok=False, models=[], latency_ms=None and the exception's message as
\* error. Nothing is persisted before the pool is done; once it is, every task
\* has run to completion, there are as many outcomes as candidates,
\* store_verifications was called with all of them, and every candidate has
\* its verification row.
C10_OneOutcomePerCandidate ==
    /\ Len(main_results) = Cardinality({i \in DOMAIN tasks : tasks[i].collected})
    /\ \A i \in DOMAIN tasks :
           LET ks == OutcomesFor(candidates[i])
               r == main_results[CHOOSE k \in ks : TRUE]
               out == Val(tasks[i].out)
           IN  /\ Cardinality(ks) = IF tasks[i].collected THEN 1 ELSE 0
               /\ tasks[i].collected /\ out.raised =>
                      /\ r.ok = FALSE
                      /\ r.models = Some(<<>>)
                      /\ r.latency_ms = None
                      /\ r.error = out.message
                      /\ r.error # None
               /\ tasks[i].collected /\ ~out.raised => r = Val(out.value)
    /\ verifications # <<>> => PastPool
    /\ PastPool =>
           /\ Len(main_results) = Len(candidates)
           /\ \A i \in DOMAIN tasks : tasks[i].st = "done"
           /\ \A i \in DOMAIN candidates :
                  /\ RowsFor(verifications, candidates[i]) # {}
                  /\ FetchedVerification(RowFor(verifications, candidates[i])).error
                         = main_results[CHOOSE k \in OutcomesFor(candidates[i]) : TRUE].error
    /\ bpc = "csv" =>
           /\ op = "store_verifications"
           /\ arg = main_results
           /\ Len(arg) = Len(candidates)

\* the first of three tasks raised, a later one verified its host, and all
\* three outcomes were stored: the crashed candidate's row carries the message
C10_Witness ==
    /\ bpc = "csv"
    /\ Len(candidates) = MaxCandidates
    /\ Val(tasks[1].out).raised
    /\ \E i \in DOMAIN tasks : ~Val(tasks[i].out).raised /\ Val(Val(tasks[i].out).value).ok
    /\ Len(main_results) = MaxCandidates
    /\ main_results[MaxCandidates].ip = Some(candidates[1])
    /\ RowFor(verifications, candidates[1]).error = Some("boom")
    /\ RowFor(verifications, candidates[1]).ok = 0

\* C11: a failure of one probe call never aborts the batch. While main is in
\* its probe stage, every step either starts the call for the next probe
\* candidate, or ends a call by adding an outcome for that candidate to
\* probe_results, or ends the stage with one outcome per probe candidate and
\* goes on to store them and to rank; main never leaves the stage any other
\* way.
C11_ProbeFailureRecovered ==
    [][(bpc = "probe" \/ bpc = "probing") =>
          \/ /\ bpc = "probe"
             /\ bpc' = "probing"
             /\ Len(probe_results) < Len(probe_candidates)
             /\ probe_results' = probe_results
          \/ /\ bpc = "probing"
             /\ bpc' = "probe"
             /\ Len(probe_results') = Len(probe_results) + 1
             /\ probe_results'[Len(probe_results')].ip
                    = probe_candidates[Len(probe_results')].ip
          \/ /\ bpc = "probe"
             /\ bpc' = "rank"
             /\ Len(probe_results) = Len(probe_candidates)
             /\ probe_results' = probe_results]_vars

\* C12: the stage barrier. A step that persists a verification or a probe,
\* writes the CSV, makes a probe call, or takes main past the as_completed loop
\* (towards persisting, probing and ranking) is taken only when every candidate
\* has a future and every future is done, with a result or an exception. A
\* future that is done stays done and no future is ever withdrawn, whatever
\* the other futures did.
C12_StageBarrier ==
    [][/\ (\/ verifications' # verifications
           \/ probes' # probes
           \/ csv' # csv
           \/ probe_results' # probe_results
           \/ bpc = "collect" /\ bpc' # "collect"
           \/ bpc \in {"csv", "probe", "probing", "rank"})
          => /\ Len(tasks) = Len(candidates)
             /\ tasks # <<>>
             /\ \A i \in DOMAIN tasks : tasks[i].st = "done" /\ tasks[i].out # None
             /\ tasks' = tasks
       /\ tasks # <<>> =>
             /\ DOMAIN tasks' = DOMAIN tasks
             /\ \A i \in DOMAIN tasks :
                    /\ tasks[i].st = "done" => tasks'[i].st = "done"
                    /\ tasks[i].st = "running" => tasks'[i].st \in {"running", "done"}]_vars

\* the first task raised and was collected first; the other tasks still ran,
\* and only then were the outcomes stored, the CSV written and a probe made
C12_Witness ==
    /\ bpc = "rank"
    /\ Len(tasks) = MaxCandidates
    /\ Val(tasks[1].out).raised
    /\ main_results[1].ip = Some(candidates[1])
    /\ Len(verifications) = MaxCandidates
    /\ csv = "written"
    /\ probes # <<>>

\* calls of verify_endpoint and of probe_node that have begun and not ended
VerifyInFlight == Cardinality({i \in DOMAIN tasks : tasks[i].st = "running"})

ProbeInFlight == IF bpc = "probing" THEN 1 ELSE 0

\* the calls in flight that a worker thread of the pool is running
PooledInFlight == VerifyInFlight

BatchOver == bpc \in {"exit0", "crashed"} /\ tasks # <<>>

\* what the probe stage is to call probe_node with: ip and model list of every
\* outcome that has ok=True and a non-empty model list, in the order of results
HealthyOutcomes ==
    LET healthy == SelectSeq(main_results,
                       LAMBDA r : r.ok /\ r.models # None /\ Val(r.models) # <<>>)
    IN  [k \in DOMAIN healthy |->
            [ip |-> healthy[k].ip, available_models |-> healthy[k].models]]

\* C14: the probe stage calls probe_node exactly once for each outcome that
\* has ok=True and a non-empty model list, with that outcome's models, and for
\* no other candidate. The calls made so far are calls for such outcomes, each
\* at most once; and when a batch that began to probe has ended, every such
\* outcome has had its call.
C14_ProbedExactlyHealthy ==
    /\ IsPrefix(probe_calls, HealthyOutcomes)
    /\ BatchOver /\ probe_calls # <<>> => probe_calls = HealthyOutcomes

\* the ips get_endpoints is to return: the stored ones that are not empty,
\* oldest first
StoredIps ==
    LET kept == {i \in DOMAIN endpoints : endpoints[i].ip # <<>>}
        rank(i) == Cardinality({j \in kept : j <= i})
    IN  [k \in 1..Cardinality(kept) |->
            endpoints[CHOOSE i \in kept : rank(i) = k].ip]

\* C15: discovery only for an empty store. When main resolves its candidates
\* and the store holds an endpoint, discover_candidates is not called, no row
\* is written and the candidates are the stored ips; discover_candidates is
\* called only when the store holds no endpoint, and at most once. When it
\* raised DiscoveryError, main has ended with exit code 1: there is no call of
\* verify_endpoint, no outcome, and no row in any table, and nothing follows.
C15_DiscoveryOnlyForEmptyStore ==
    [][/\ bpc = "start" /\ bpc' # "start" /\ Len(endpoints) > 0 =>
              /\ discovery_calls' = discovery_calls
              /\ candidates' = StoredIps
              /\ endpoints' = endpoints
              /\ verifications' = verifications
              /\ probes' = probes
       /\ discovery_calls' # discovery_calls =>
              /\ Len(endpoints) = 0
              /\ bpc = "start"
              /\ discovery_calls' = 1
       /\ bpc' = "exit1" =>
              /\ discovery_calls' = 1
              /\ tasks' = <<>>
              /\ main_results' = <<>>
              /\ probe_calls' = <<>>
              /\ endpoints' = <<>> /\ verifications' = <<>> /\ probes' = <<>>
              /\ csv' = "absent"
       /\ bpc = "exit1" => UNCHANGED vars]_vars

\* a batch over stored endpoints: no discovery, the stored ips were verified
C15_Witness ==
    /\ bpc = "csv"
    /\ discovery_calls = 0
    /\ candidates = StoredIps
    /\ Len(candidates) = MaxCandidates
    /\ Len(verifications) = MaxCandidates

\* ------------------------------------------------- scoring.py as functions
MaxModels == 47
MaxLatencySteps == 8
MaxRecords == 3

\* a list of n model names
ModelList(n) == [i \in 1..n |-> "m"]

\* latencies from below zero to beyond the one of the full penalty
Latencies == {None} \cup {Some((k - 1) * (LATENCY_TARGET_MS \div 2)) : k \in 0..MaxLatencySteps}

\* verification records as score_verification reads them
ScoreArgs ==
    [ok : BOOLEAN,
     models : {None, Some(<<"">>), Some(<<"", "m">>)}
                  \cup {Some(ModelList(n)) : n \in 0..MaxModels},
     latency_ms : Latencies]

InitScore ==
    /\ Fresh
    /\ op = "input"
    /\ arg \in ScoreArgs

ScoreCall ==
    /\ op = "input"
    /\ op' = "score_verification"
    /\ ret' = Some(score_verification(arg))
    /\ UNCHANGED <<tables, now, arg, nOps, txvars, batchvars>>

NextScore == ScoreCall
SpecScore == InitScore /\ [][NextScore]_vars

\* records to rank: two healthy ones of equal score, a faster and a slower
\* one, and two that failed
RankRecords ==
    {VerifyResult(IpA, TRUE, <<"m">>, Some(7), None, NoGeo),
     VerifyResult(IpB, TRUE, <<"m">>, Some(7), None, NoGeo),
     VerifyResult(IpC, TRUE, <<"n", "m">>, Some(7), None, NoGeo),
     VerifyResult(IpC, TRUE, <<"m">>, Some(LATENCY_TARGET_MS + LATENCY_TARGET_MS), None, NoGeo),
     VerifyResult(IpA, FALSE, <<>>, None, Some("timed out"), NoGeo),
     VerifyResult(IpD, FALSE, <<"m">>, Some(7), Some("inference_gibberish"), NoGeo)}

InitRank ==
    /\ Fresh
    /\ op = "input"
    /\ arg \in SeqsUpTo(RankRecords, MaxRecords)

RankCall ==
    /\ op = "input"
    /\ op' = "rank_verifications"
    /\ ret' = Some(rank_verifications(arg))
    /\ UNCHANGED <<tables, now, arg, nOps, txvars, batchvars>>

NextRank == RankCall
SpecRank == InitRank /\ [][NextRank]_vars

\* C16: the score of every verification record lies between 0 and 100, and
\* it is exactly 0 when ok is false, whatever the models and the latency are
C16_ScoreInRange ==
    op = "score_verification" =>
        /\ Val(ret) \in 0..MAX_SCORE
        /\ ~arg.ok => Val(ret) = 0

\* a failed record with the most models and a good latency is scored 0
C16_Witness ==
    /\ op = "score_verification"
    /\ ~arg.ok
    /\ arg.models = Some(ModelList(MaxModels))
    /\ arg.latency_ms = Some(LATENCY_TARGET_MS \div 2)
    /\ ret = Some(0)

\* out is inp with the scores attached, rearranged by p
RankedBy(p, inp, out) ==
    /\ \A k \in DOMAIN out :
           /\ DOMAIN out[k] = DOMAIN inp[p[k]] \cup {"score"}
           /\ \A f \in DOMAIN inp[p[k]] : out[k][f] = inp[p[k]][f]
           /\ out[k].score = score_verification(inp[p[k]])
    /\ \A k, l \in DOMAIN out :
           k < l => /\ out[k].score >= out[l].score
                    /\ out[k].score = out[l].score => p[k] < p[l]

\* C17: rank returns a permutation of its input records, each with its score
\* attached, ordered non-increasing by score; records of equal score keep
\* the relative order they have in the input
C17_RankStablePermutation ==
    op = "rank_verifications" =>
        /\ Len(Val(ret)) = Len(arg)
        /\ \E p \in Permutations(DOMAIN arg) : RankedBy(p, arg, Val(ret))

\* three records, the best one last and two of equal score before it
C17_Witness ==
    /\ op = "rank_verifications"
    /\ Len(arg) = MaxRecords
    /\ \E i, j \in DOMAIN arg :
           /\ i < j
           /\ arg[i].ip # arg[j].ip
           /\ score_verification(arg[i]) = score_verification(arg[j])
           /\ score_verification(arg[i]) < score_verification(arg[Len(arg)])
    /\ Val(ret)[1].ip = arg[Len(arg)].ip

\* ------------------------------------------- verify_endpoint as a function
MaxText == 4

\* a text of n letters
LongText(n) == [i \in 1..n |-> "a"]

\* reply texts: the short ones of letters, digits and blanks, and two long
\* ones at the length limit of _looks_like_language
Texts == SeqsUpTo({"a", "1", " "}, MaxText) \cup {LongText(200), LongText(201)}

Chats ==
    {ChatRefused, ChatStatus(500, <<"h", "i", "!">>), ChatNoContent}
        \cup {ChatText(text) : text \in Texts}

\* what GET /api/tags does, with the fields of a host
Gets ==
    {[get |-> "timeout", message |-> "timed out", status |-> 0, latency_ms |-> 0],
     [get |-> "crash", message |-> "boom", status |-> 0, latency_ms |-> 0],
     [get |-> "response", message |-> "", status |-> 200, latency_ms |-> 7],
     [get |-> "response", message |-> "", status |-> 500, latency_ms |-> 3],
     [get |-> "response", message |-> "", status |-> 404, latency_ms |-> 0]}

TagLists == {None, Some(<<>>), Some(<<"">>), Some(<<"m">>), Some(<<"", "m", "phi">>)}

GeoAnswers == {None, HostHealthyGeo.geo}

MaxNames == 3

\* model names: two that start with a preferred prefix, one that is a
\* preferred name, one that matches none, and the empty name
PickNames == {"", "m", "phi3:mini", "qwen2.5:0.5b", "llama3.2:1b"}

\* hosts whose metadata lists up to MaxNames of these names
PickHosts ==
    {[get |-> "response", message |-> "", status |-> 200, latency_ms |-> 7,
      tags |-> Some(t), chat |-> c, geo |-> None] :
         t \in SeqsUpTo(PickNames, MaxNames),
         c \in {ChatRefused, ChatText(<<"h", "i", "!">>)}}

VerifyHostsAll ==
    {[get |-> g.get, message |-> g.message, status |-> g.status,
      latency_ms |-> g.latency_ms, tags |-> t, chat |-> c, geo |-> geo] :
         g \in Gets, t \in TagLists, c \in Chats, geo \in GeoAnswers}
        \cup PickHosts

InitVerify ==
    /\ Fresh
    /\ op = "input"
    /\ arg \in [ip : {IpA}, host : VerifyHostsAll]

VerifyCall ==
    /\ op = "input"
    /\ op' = "verify_endpoint"
    /\ ret' = verify_endpoint_run(arg.ip, arg.host).outcome
    /\ requests_made' = verify_endpoint_run(arg.ip, arg.host).requests
    /\ UNCHANGED <<tables, now, arg, nOps, txvars, bpc, candidates, tasks,
                   main_results, probe_results, csv, discovery_calls,
                   probe_calls, ranked>>

NextVerify == VerifyCall
SpecVerify == InitVerify /\ [][NextVerify]_vars

\* the metadata fetch returned 200 with parseable JSON
MetadataOk(host) ==
    host.get = "response" /\ host.status = 200 /\ host.tags # None

\* a probe model can be selected: some model name is not empty
ModelSelectable(host) ==
    \E i \in DOMAIN Val(host.tags) : Val(host.tags)[i] # ""

\* the places of text where a whitespace-delimited token starts
TokenStarts(text) ==
    {i \in DOMAIN text : text[i] # " " /\ (i = 1 \/ text[i - 1] = " ")}

\* the token that starts at i contains a letter
TokenHasLetter(text, i) ==
    \E j \in i..Len(text) :
        /\ IsAlpha(text[j])
        /\ \A k \in i..j : text[k] # " "

\* the language heuristic: length in [3,200] and more than half of the
\* whitespace-delimited tokens contain a letter
PassesHeuristic(text) ==
    /\ Len(text) >= 3
    /\ Len(text) <= 200
    /\ 2 * Cardinality({i \in TokenStarts(text) : TokenHasLetter(text, i)})
           > Cardinality(TokenStarts(text))

\* the inference call returned 200 with a reply text that passes
InferenceOk(host) ==
    /\ host.chat.post = "response"
    /\ host.chat.status = 200
    /\ host.chat.content # None
    /\ PassesHeuristic(Val(host.chat.content))

\* C18: verify returns ok=true exactly when the metadata fetch returned 200
\* with parseable JSON, a probe model could be selected and the inference
\* call returned 200 with a reply that passes the language heuristic; when a
\* model was selected and the inference fails, returns non-200 or its reply
\* is rejected, the outcome is ok=false, error "inference_gibberish", with
\* the models list still reported
C18_OkIffInferenceSpeaks ==
    op = "verify_endpoint" /\ ~ret.raised =>
        LET host == arg.host
            res == Val(ret.value)
        IN  /\ res.ok <=> /\ MetadataOk(host)
                          /\ ModelSelectable(host)
                          /\ InferenceOk(host)
            /\ MetadataOk(host) /\ ModelSelectable(host) /\ ~InferenceOk(host) =>
                   /\ ~res.ok
                   /\ res.error = Some("inference_gibberish")
                   /\ res.models = host.tags

\* a reply of two tokens of which one has a letter is rejected, and the
\* models are still reported
C18_Witness ==
    /\ op = "verify_endpoint"
    /\ MetadataOk(arg.host)
    /\ arg.host.tags = Some(<<"", "m", "phi">>)
    /\ arg.host.chat = ChatText(<<"a", " ", "1">>)
    /\ ~ret.raised
    /\ ~Val(ret.value).ok
    /\ Val(ret.value).error = Some("inference_gibberish")
    /\ Val(ret.value).models = Some(<<"", "m", "phi">>)
    /\ requests_made = <<GetTags, PostChat("phi")>>

\* C19: a failed metadata fetch is returned as data and no inference call is
\* made: a transport failure gives ok=false, models [], latency None and the
\* transport message as error; a non-200 status gives ok=false, models [],
\* error "status <code>" and a latency that is not None
C19_MetadataFailureIsData ==
    op = "verify_endpoint" =>
        LET host == arg.host
            res == Val(ret.value)
        IN  /\ host.get = "timeout" =>
                   /\ ~ret.raised
                   /\ ~res.ok
                   /\ res.models = Some(<<>>)
                   /\ res.latency_ms = None
                   /\ res.error = Some(host.message)
                   /\ requests_made = <<GetTags>>
            /\ host.get = "response" /\ host.status # 200 =>
                   /\ ~ret.raised
                   /\ ~res.ok
                   /\ res.models = Some(<<>>)
                   /\ res.latency_ms # None
                   /\ host.status = 500 => res.error = Some("status 500")
                   /\ host.status = 404 => res.error = Some("status 404")
                   /\ requests_made = <<GetTags>>
            /\ host.get = "response" /\ host.status = 200 /\ host.tags = None =>
                   /\ ~ret.raised
                   /\ ~res.ok
                   /\ requests_made = <<GetTags>>

\* the metadata fetch of a host that would answer the inference times out
C19_Witness ==
    /\ op = "verify_endpoint"
    /\ arg.host.get = "timeout"
    /\ arg.host.chat = ChatText(<<"a", "a", "a">>)
    /\ ret = Return(VerifyResult(IpA, FALSE, <<>>, None, Some("timed out"), NoGeo))
    /\ requests_made = <<GetTags>>

\* ------------------------------------------------ probe_node as a function
\* response texts: "PING", " P i n g! ", "ping", "pong", "pinging" and ""
ProbeTexts ==
    {<<"P", "I", "N", "G">>,
     <<" ", "P", " ", "i", " ", "n", " ", "g", "!", " ">>,
     <<"p", "i", "n", "g">>,
     <<"p", "o", "n", "g">>,
     <<"p", "i", "n", "g", "i", "n", "g">>,
     <<>>}

\* the "message" key of the JSON body
ProbeMessages ==
    {NoMessage, [kind |-> "other", content |-> None]}
        \cup {[kind |-> "dict", content |-> c] :
                  c \in {None} \cup {Some(text) : text \in ProbeTexts}}

ProbeBodies ==
    {None} \cup {Some([response |-> r, message |-> m]) :
                     r \in {None} \cup {Some(text) : text \in ProbeTexts},
                     m \in ProbeMessages}

ProbeHostsAll ==
    {ProbeHostTimeout}
        \cup {[post |-> "response", error |-> "", status |-> code, latency_ms |-> 5,
               text |-> text, json |-> json] :
                  code \in {200, 500}, text \in ProbeTexts, json \in ProbeBodies}

\* model lists: empty, without a usable name, and with names
NoUsableName == {<<>>, <<"">>, <<" ">>, <<"", "  ">>}
ProbeModelLists == NoUsableName \cup {<<"n", "m">>, <<" ", "m">>}

InitProbe ==
    /\ Fresh
    /\ op = "input"
    /\ arg \in [ip : {IpA}, available_models : ProbeModelLists,
                host : ProbeHostsAll]

ProbeCall ==
    /\ op = "input"
    /\ op' = "probe_node"
    /\ ret' = probe_node_run(arg.ip, arg.available_models, arg.host).outcome
    /\ requests_made' = probe_node_run(arg.ip, arg.available_models, arg.host).requests
    /\ UNCHANGED <<tables, now, arg, nOps, txvars, bpc, candidates, tasks,
                   main_results, probe_results, csv, discovery_calls,
                   probe_calls, ranked>>

NextProbe == ProbeCall
SpecProbe == InitProbe /\ [][NextProbe]_vars

\* the response text, extracted tolerantly: the JSON field "response", then
\* the nested "message"."content", then the raw body text
ExtractedText(host) ==
    LET data == Val(host.json)
    IN  IF host.json # None /\ data.response # None /\ Val(data.response) # <<>>
        THEN Val(data.response)
        ELSE IF host.json # None /\ data.message.kind = "dict"
                /\ data.message.content # None /\ Val(data.message.content) # <<>>
        THEN Val(data.message.content)
        ELSE host.text

\* text without its non-alphabetic characters, lower-cased
LettersOnly(text) ==
    LET letters == SelectSeq(text, IsAlpha)
    IN  [i \in DOMAIN letters |-> Lower(letters[i])]

\* C20: a probe that makes its request reports success=true exactly when the
\* status is 200 and the extracted text, lower-cased and without its
\* non-alphabetic characters, is "ping"; any other end is a failed outcome:
\* a transport error (error = message, latency and status None), "status
\* <code>" for a non-200 response, "unexpected_output" for a 200 response
C20_ProbeSuccessIffPing ==
    op = "probe_node" /\ select_probe_model(arg.available_models) \notin {None, Some("")} =>
        LET host == arg.host
            res == Val(ret.value)
            ping == /\ host.post = "response"
                    /\ host.status = 200
                    /\ LettersOnly(ExtractedText(host)) = <<"p", "i", "n", "g">>
        IN  /\ ~ret.raised
            /\ res.success <=> ping
            /\ host.post = "timeout" =>
                   /\ res.error = Some(host.error)
                   /\ res.latency_ms = None
                   /\ res.status_code = None
            /\ host.post = "response" /\ host.status = 500 =>
                   res.error = Some("status 500")
            /\ host.post = "response" /\ host.status = 200 /\ ~ping =>
                   res.error = Some("unexpected_output")



\* C21: when the model list is empty or holds no usable name, probe returns
\* at once with success false, model, latency and status None and the error
\* "no models available", and makes no network call
C21_NoModelsNoCall ==
    op = "probe_node" /\ arg.available_models \in NoUsableName =>
        /\ ret = Return([ip |-> Some(arg.ip), model |-> None, success |-> FALSE,
                         latency_ms |-> None, status_code |-> None,
                         error |-> Some("no models available"), body |-> None])
        /\ requests_made = <<>>

\* a list of one blank name, probed at a host that would answer "ping"
C21_Witness ==
    /\ op = "probe_node"
    /\ arg.available_models = <<" ">>
    /\ arg.host.post = "response"
    /\ arg.host.status = 200
    /\ arg.host.json = None
    /\ arg.host.text = <<"p", "i", "n", "g">>
    /\ ~Val(ret.value).success
    /\ Val(ret.value).error = Some("no models available")
    /\ requests_made = <<>>



\* the metadata response is 200 and its body is not JSON
BodyNotJson(host) ==
    host.get = "response" /\ host.status = 200 /\ host.tags = None

\* C22 as stated: a 200 metadata response whose body is not JSON gives
\* ok=false with an error "invalid_json: <detail>", models [] and a latency
\* that is not None, and no inference call is made
C22_InvalidJsonTaxonomyPrefix ==
    op = "verify_endpoint" /\ BodyNotJson(arg.host) =>
        /\ ~ret.raised
        /\ ~Val(ret.value).ok
        /\ StartsWith(Val(Val(ret.value).error), "invalid_json: ")
        /\ Val(ret.value).models = Some(<<>>)
        /\ Val(ret.value).latency_ms # None
        /\ requests_made = <<GetTags>>

\* C22: a 200 metadata response whose body is not JSON gives ok=false with
\* an error "invalid json: <detail>" (the words, with a blank), models []
\* and a latency that is not None, and no inference call is made
C22_InvalidJsonIsData ==
    op = "verify_endpoint" /\ BodyNotJson(arg.host) =>
        /\ ~ret.raised
        /\ ~Val(ret.value).ok
        /\ StartsWith(Val(Val(ret.value).error), "invalid json: ")
        /\ Len(Val(Val(ret.value).error)) > Len("invalid json: ")
        /\ Val(ret.value).models = Some(<<>>)
        /\ Val(ret.value).latency_ms # None
        /\ requests_made = <<GetTags>>

\* a host that answers 200 with a body that is not JSON, and that would
\* answer the inference
C22_Witness ==
    /\ op = "verify_endpoint"
    /\ BodyNotJson(arg.host)
    /\ arg.host.chat = ChatText(<<"a", "a", "a">>)
    /\ Val(ret.value).error = Some("invalid json: Expecting value")
    /\ Val(ret.value).latency_ms = Some(7)
    /\ requests_made = <<GetTags>>



\* the places of the names that can be selected: the names that are not empty
Usable(names) == {i \in DOMAIN names : names[i] # ""}

\* the usable names that start with the k-th preferred prefix
PrefixMatches(names, k) ==
    {i \in Usable(names) : StartsWith(names[i], PREFERRED_PROBE_MODELS[k])}

\* the smallest number of a set of numbers
Least(S) == CHOOSE i \in S : \A j \in S : i <= j

\* C23: the verifier asks the inference of the first returned name that
\* starts with the highest-priority preferred prefix that matches at all,
\* even when a name of a lower-priority prefix stands earlier in the list;
\* when no prefix matches, of the first name; a list without a usable name
\* gives ok=false, error "no_probe_model", the parsed list still reported,
\* and no inference call
C23_VerifierPicksByPriority ==
    op = "verify_endpoint" /\ MetadataOk(arg.host) =>
        LET names == Val(arg.host.tags)
            matching == {k \in DOMAIN PREFERRED_PROBE_MODELS :
                             PrefixMatches(names, k) # {}}
            selected == IF matching = {} THEN Least(Usable(names))
                        ELSE Least(PrefixMatches(names, Least(matching)))
        IN  /\ Usable(names) = {} =>
                   /\ ~ret.raised
                   /\ ~Val(ret.value).ok
                   /\ Val(ret.value).error = Some("no_probe_model")
                   /\ Val(ret.value).models = Some(names)
                   /\ requests_made = <<GetTags>>
            /\ Usable(names) # {} =>
                   requests_made = <<GetTags, "POST /api/chat " \o names[selected]>>

\* a name of the third prefix stands before a name of the first prefix, which
\* is selected
C23_Witness ==
    /\ op = "verify_endpoint"
    /\ arg.host.tags = Some(<<"m", "llama3.2:1b", "phi3:mini">>)
    /\ requests_made = <<GetTags, "POST /api/chat phi3:mini">>

\* ----------------------------------------- select_probe_model as a function
\* names: empty and blank ones, short ones, preferred names in several
\* spellings, and a name that only starts with a preferred one
SelectNames ==
    {"", " ", "m", "n", "B", "a", "zz", "phi", "PHI", " phi ", "phi3:mini", "llama3"}

InitSelect ==
    /\ Fresh
    /\ op = "input"
    /\ arg \in SeqsUpTo(SelectNames, MaxNames)

SelectCall ==
    /\ op = "input"
    /\ op' = "select_probe_model"
    /\ ret' = select_probe_model(arg)
    /\ UNCHANGED <<tables, now, arg, nOps, txvars, batchvars>>

NextSelect == SelectCall
SpecSelect == InitSelect /\ [][NextSelect]_vars

\* the supplied names, whitespace-trimmed (empty names are not names)
Trimmed(models) == {StrStrip(models[i]) : i \in {j \in DOMAIN models : models[j] # ""}}

\* the preference entries that some trimmed name equals, case-insensitively
\* and in full
MatchedPreferences(models) ==
    {k \in DOMAIN PROBE_PREFERENCE :
         \E t \in Trimmed(models) : StrLower(t) = PROBE_PREFERENCE[k]}

\* C24: the prober chooses, among the trimmed names, one that equals in full
\* and case-insensitively the highest-priority preference entry that has such
\* a name; when no entry has one, the shortest name, the lexicographically
\* smallest among the shortest
C24_ProberPicksPreferredOrShortest ==
    op = "select_probe_model" /\ Trimmed(arg) # {} =>
        /\ ret # None
        /\ Val(ret) \in Trimmed(arg)
        /\ MatchedPreferences(arg) # {} =>
               StrLower(Val(ret)) = PROBE_PREFERENCE[Least(MatchedPreferences(arg))]
        /\ MatchedPreferences(arg) = {} =>
               \A t \in Trimmed(arg) :
                   \/ Len(t) > Len(Val(ret))
                   \/ Len(t) = Len(Val(ret)) /\ ~StrLess(t, Val(ret))

\* "phi3:mini" only starts with a preferred name: the shortest name is
\* chosen, the upper-case one of two of equal length, though it stands last
C24_Witness ==
    /\ op = "select_probe_model"
    /\ arg = <<"phi3:mini", "a", "B">>
    /\ ret = Some("B")

DEFAULT_PORT == 11434
PROBE_DEFAULT_PORT == 11434

\* s.rstrip("/")
RECURSIVE RStripSlash(_)
RStripSlash(s) ==
    IF s # "" /\ SubSeq(s, Len(s), Len(s)) = "/"
    THEN RStripSlash(SubSeq(s, 1, Len(s) - 1))
    ELSE s

\* host.count(":")
CountColons(host) == Cardinality({i \in 1..Len(host) : SubSeq(host, i, i) = ":"})

\* the bug of appending the port to a host that carries one
verify_build_url_AlwaysPort(host, port, path) ==
    LET url_base == IF StartsWith(host, "http://") \/ StartsWith(host, "https://")
                THEN RStripSlash(host)
                ELSE "http://" \o host \o ":" \o ToString(port)
    IN  url_base \o path

\* verify._build_url(host, port, path)
verify_build_url(host, port, path) ==
    LET url_base == IF StartsWith(host, "http://") \/ StartsWith(host, "https://")
                THEN RStripSlash(host)
                ELSE IF CountColons(host) = 1
                THEN "http://" \o host
                ELSE "http://" \o host \o ":" \o ToString(port)
    IN  url_base \o path

\* probe._build_url(host, port, path)
probe_build_url(host, port, path) ==
    LET url_base == IF StartsWith(host, "http://") \/ StartsWith(host, "https://")
                THEN RStripSlash(host)
                ELSE IF CountColons(host) = 1
                THEN "http://" \o host
                ELSE "http://" \o host \o ":" \o ToString(port)
    IN  url_base \o path

\* host strings: with and without a scheme, a port and trailing slashes
UrlHosts ==
    {scheme \o name \o port \o slashes :
         scheme \in {"", "http://", "https://", "HTTP://"},
         name \in {"10.0.0.5", "h.example", "::1", ""},
         port \in {"", ":8080"},
         slashes \in {"", "/", "//"}}

\* the paths of the requests: /api/tags, the base of /api/chat, /api/generate
UrlPaths == {"/api/tags", "", "/api/generate"}

InitUrl ==
    /\ Fresh
    /\ op = "input"
    /\ arg \in [host : UrlHosts, path : UrlPaths]

VerifyBuildUrl ==
    /\ op = "input"
    /\ op' = "verify._build_url"
    /\ ret' = Some(verify_build_url(arg.host, DEFAULT_PORT, arg.path))
    /\ UNCHANGED <<tables, now, arg, nOps, txvars, batchvars>>

ProbeBuildUrl ==
    /\ op = "input"
    /\ op' = "probe._build_url"
    /\ ret' = Some(probe_build_url(arg.host, PROBE_DEFAULT_PORT, arg.path))
    /\ UNCHANGED <<tables, now, arg, nOps, txvars, batchvars>>

NextUrl == VerifyBuildUrl \/ ProbeBuildUrl
SpecUrl == InitUrl /\ [][NextUrl]_vars

\* host without its trailing slashes: its longest prefix that does not end
\* with a slash
WithoutTrailingSlashes(host) ==
    LET n == CHOOSE k \in 0..Len(host) :
                 /\ k = 0 \/ SubSeq(host, k, k) # "/"
                 /\ \A i \in (k + 1)..Len(host) : SubSeq(host, i, i) = "/"
    IN  SubSeq(host, 1, n)

\* the URL of a host string by the rule of the specification
UrlByRule(host, path) ==
    IF StartsWith(host, "http://") \/ StartsWith(host, "https://")
    THEN WithoutTrailingSlashes(host) \o path
    ELSE IF \E i \in 1..Len(host) :
                /\ SubSeq(host, i, i) = ":"
                /\ \A j \in 1..Len(host) : SubSeq(host, j, j) = ":" => j = i
    THEN "http://" \o host \o path
    ELSE "http://" \o host \o ":11434" \o path

\* C25: verifier and prober build the same URL for every host string: a host
\* with an http:// or https:// scheme is taken verbatim without its trailing
\* slashes; else a host with exactly one colon is host:port and only gets
\* http:// in front; else http:// goes in front and :11434 behind; then the
\* path is appended
C25_UrlConstruction ==
    /\ op = "verify._build_url" =>
           /\ Val(ret) = UrlByRule(arg.host, arg.path)
           /\ Val(ret) = probe_build_url(arg.host, PROBE_DEFAULT_PORT, arg.path)
    /\ op = "probe._build_url" =>
           /\ Val(ret) = UrlByRule(arg.host, arg.path)
           /\ Val(ret) = verify_build_url(arg.host, DEFAULT_PORT, arg.path)

\* "10.0.0.5:8080" gives http://10.0.0.5:8080/api/tags in the verifier
C25_Witness ==
    /\ op = "verify._build_url"
    /\ arg.host = "10.0.0.5:8080"
    /\ arg.path = "/api/tags"
    /\ ret = Some("http://10.0.0.5:8080/api/tags")




\* a verification outcome has the shape of its ok: a healthy one has models,
\* a latency and no error, a failed one has an error that is not empty
WellShaped(r) ==
    /\ r.ok => /\ r.models # None /\ Val(r.models) # <<>>
               /\ r.latency_ms # None
               /\ r.error = None
    /\ ~r.ok => r.error # None /\ Val(r.error) # ""

\* the ips of the calls of probe_node, and the ips of the outcomes with ok=True
ProbedIps == {probe_calls[i].ip : i \in DOMAIN probe_calls}
HealthyIps == {main_results[i].ip : i \in {j \in DOMAIN main_results : main_results[j].ok}}

\* C26: every outcome with ok=true has a non-empty models list, a latency
\* and no error, every outcome with ok=false has a non-empty error; and the
\* endpoints probed in a batch are exactly the endpoints with ok=true
C26_ProbedAreTheHealthy ==
    /\ \A i \in DOMAIN main_results : WellShaped(main_results[i])
    /\ ProbedIps \subseteq HealthyIps
    /\ BatchOver => ProbedIps = HealthyIps

\* the outcome of the i-th submitted task, whenever the pool hands it over
OutcomeOf(i) ==
    LET out == Val(tasks[i].out)
    IN  IF out.raised
        THEN VerifyResult(candidates[i], FALSE, <<>>, None, out.message, NoGeo)
        ELSE Val(out.value)

\* the i-th submitted task ended with an outcome the probe stage takes
ToProbe(i) ==
    LET r == OutcomeOf(i) IN r.ok /\ r.models # None /\ Val(r.models) # <<>>

\* the score of each submitted task's outcome, in submission order
TaskScores == [i \in DOMAIN tasks |-> score_verification(OutcomeOf(i))]

\* how many of the values of the sequence or function f are v
Count(f, v) == Cardinality({k \in DOMAIN f : f[k] = v})

\* the futures were not collected in the order they were submitted in
CollectedOutOfOrder ==
    \E k \in DOMAIN main_results : main_results[k].ip # Some(candidates[k])

\* C28: a batch does not depend on the order its Verifier tasks complete in.
\* What the batch leaves behind is a function of the candidates and of what
\* each candidate's task ended with, independent of the order of results:
\* the stored endpoints are the candidates, every candidate has one
\* verification row whose ok, models, latency, error and geolocation are those
\* of its own task, a batch that ran to its end appended one probe row for
\* each candidate whose task found a healthy host with models and none for
\* any other, for the model chosen from that task's model list and with what
\* that candidate's one probe came back with, and the ranking holds every
\* task's score as often as tasks have it. Rows are compared by the columns
\* the batch supplies: checked_at, and the id and ts of a probe row, are
\* stamps of the store.
C28_BatchIgnoresCompletionOrder ==
    /\ PastPool =>
           /\ {endpoints[k].ip : k \in DOMAIN endpoints} \ {<<>>}
                  = {candidates[i] : i \in DOMAIN candidates}
           /\ Len(verifications) = Len(candidates)
           /\ \A i \in DOMAIN tasks :
                  LET row == RowFor(verifications, candidates[i])
                      want == VerificationPayload(OutcomeOf(i))
                  IN  /\ Cardinality(RowsFor(verifications, candidates[i])) = 1
                      /\ \A f \in DOMAIN want : row[f] = want[f]
    /\ bpc = "exit0" /\ tasks # <<>> =>
           /\ Len(probes) = Cardinality({i \in DOMAIN tasks : ToProbe(i)})
           /\ \A i \in DOMAIN tasks :
                  /\ Cardinality(RowsFor(probes, candidates[i])) = IF ToProbe(i) THEN 1 ELSE 0
                  /\ ToProbe(i) =>
                         LET row == RowFor(probes, candidates[i])
                             of_ip == {k \in DOMAIN probe_results :
                                          probe_results[k].ip = Some(candidates[i])}
                             want == ProbePayload(probe_results[CHOOSE k \in of_ip : TRUE])
                         IN  /\ row.model = select_probe_model(Val(OutcomeOf(i).models))
                             /\ Cardinality(of_ip) = 1
                             /\ \A f \in DOMAIN want : row[f] = want[f]
           /\ Len(ranked) = Len(tasks)
           /\ LET scores == TaskScores
                   got == [k \in DOMAIN ranked |-> ranked[k].score]
               IN  \A s \in Range(scores) \cup Range(got) : Count(got, s) = Count(scores, s)

\* three candidates whose futures were collected in another order than they
\* were submitted in, one of them healthy, and the batch ran to its end
C28_Witness ==
    /\ bpc = "exit0"
    /\ Len(candidates) = MaxCandidates
    /\ CollectedOutOfOrder
    /\ \E i \in DOMAIN tasks : ToProbe(i)
    /\ \E i \in DOMAIN tasks : Val(tasks[i].out).raised
    /\ probes # <<>>
    /\ Len(ranked) = MaxCandidates



====
